---------------------------- MODULE Spec2Model ----------------------------
(* A model of the Typed Eva static type checker: the Type hierarchy with   *)
(* its equals protocol (src/src/Type.js), the TypeEnvironment              *)
(* (src/unnamed/part_000) and the recursive checker EvaTC                  *)
(* (src/src/EvaTC.js).                                                     *)
(*                                                                         *)
(* JavaScript objects live in two heaps: types (the Type instances) and    *)
(* envs (the TypeEnvironment instances); an object is its index, 0 stands  *)
(* for null/undefined.  reg is the table of own static properties of the   *)
(* Type class that hold types (Type.number, Type["Fn<number<number>>"],    *)
(* Type.int, ...): it belongs to the process, not to a checker instance.   *)
(* A thrown exception is a non-empty err string; the heaps keep every      *)
(* write made before the throw.  last records the last call and how it     *)
(* ended, calls counts the calls made.                                     *)
EXTENDS Integers, Sequences, FiniteSets, TLC

VARIABLES types, envs, reg, global, last, calls

vars == <<types, envs, reg, global, last, calls>>

-----------------------------------------------------------------------------
(* Bound of the model: the number of calls (new EvaTC(), tcGlobal, tc)     *)
(* made in one process after the first checker is constructed.  Every call *)
(* allocates a bounded number of heap cells, so the heaps are bounded too.  *)

MaxCalls == 3

-----------------------------------------------------------------------------
(* Expressions: the parsed tree the checker consumes.  A JavaScript number *)
(* is N, a string (a name, an operator, a quoted literal, a type           *)
(* annotation) is S(text), an array is L(<<...>>).                         *)

N == [t |-> "num"]

S(text) == [t |-> "s", v |-> text]

L(items) == [t |-> "l", v |-> items]

\* exp[0] where the code compares it with a tag or tests it with a regular
\* expression: the first element of an array when that is a string, the first
\* character of a string; "" (which equals no tag and matches no pattern)
\* otherwise.
Head0(exp) ==
  IF exp.t = "l"
    THEN IF Len(exp.v) > 0 /\ exp.v[1].t = "s" THEN exp.v[1].v ELSE ""
    ELSE IF exp.t = "s" /\ Len(exp.v) > 0 THEN SubSeq(exp.v, 1, 1) ELSE ""

\* exp.length
Length(exp) == IF exp.t = "num" THEN 0 ELSE Len(exp.v)

\* undefined
Undef == [t |-> "undef"]

\* exp[i], 0-based as in the source: an element of an array, a character of
\* a string, undefined otherwise and out of range.
At(exp, i) ==
  IF exp.t = "l" /\ i + 1 <= Len(exp.v) THEN exp.v[i + 1]
  ELSE IF exp.t = "s" /\ i + 1 <= Len(exp.v) THEN S(SubSeq(exp.v, i + 1, i + 1))
  ELSE Undef

\* exp.slice(from) of an array
SliceFrom(exp, from) == L(SubSeq(exp.v, from + 1, Len(exp.v)))

IsArray(exp) == exp.t = "l"

-----------------------------------------------------------------------------
(* Characters and the regular expressions of the source.                   *)

LowerChars ==
  {"a","b","c","d","e","f","g","h","i","j","k","l","m",
   "n","o","p","q","r","s","t","u","v","w","x","y","z"}

UpperChars ==
  {"A","B","C","D","E","F","G","H","I","J","K","L","M",
   "N","O","P","Q","R","S","T","U","V","W","X","Y","Z"}

DigitChars == {"0","1","2","3","4","5","6","7","8","9"}

WordChars == LowerChars \cup UpperChars \cup DigitChars \cup {"_"}

SpaceChars == {" "}

Chr(str, i) == SubSeq(str, i, i)

AllChars(str, set) == \A i \in 1..Len(str) : Chr(str, i) \in set

\* The position of the first occurrence of the character c at or after
\* position from, 0 when there is none.
RECURSIVE IndexOf(_, _, _)
IndexOf(str, c, from) ==
  IF from > Len(str) THEN 0
  ELSE IF Chr(str, from) = c THEN from
  ELSE IndexOf(str, c, from + 1)

\* typeStr.includes('Fn<')
IncludesFn(str) ==
  \E i \in 1..Len(str) : i + 2 <= Len(str) /\ SubSeq(str, i, i + 2) = "Fn<"

\* /^<([^>]+)>$/ : the text between the brackets, "" when there is no match
\* (a match captures at least one character).
AngleInner(str) ==
  IF /\ Len(str) >= 3
     /\ Chr(str, 1) = "<"
     /\ Chr(str, Len(str)) = ">"
     /\ IndexOf(str, ">", 2) = Len(str)
  THEN SubSeq(str, 2, Len(str) - 1)
  ELSE ""

\* str.split(',')
RECURSIVE SplitComma(_)
SplitComma(str) ==
  LET i == IndexOf(str, ",", 1)
  IN  IF i = 0 THEN <<str>>
      ELSE <<SubSeq(str, 1, i - 1)>> \o SplitComma(SubSeq(str, i + 1, Len(str)))

\* The first position at or after from that holds no white space.
RECURSIVE SkipSpace(_, _)
SkipSpace(str, from) ==
  IF from <= Len(str) /\ Chr(str, from) \in SpaceChars
    THEN SkipSpace(str, from + 1)
    ELSE from

\* str.split(/,\s*/g)
RECURSIVE SplitParams(_)
SplitParams(str) ==
  LET i == IndexOf(str, ",", 1)
  IN  IF i = 0 THEN <<str>>
      ELSE <<SubSeq(str, 1, i - 1)>>
             \o SplitParams(SubSeq(str, SkipSpace(str, i + 1), Len(str)))

\* /^Fn<(\w+)<([a-z,\s]+)>>$/ : [ok, ret, params]
MatchFnParams(str) ==
  LET n == Len(str)
      lt == IndexOf(str, "<", 4)
      ret == SubSeq(str, 4, lt - 1)
      ps == SubSeq(str, lt + 1, n - 2)
      ok == /\ n >= 8
            /\ SubSeq(str, 1, 3) = "Fn<"
            /\ lt > 4
            /\ lt + 1 <= n - 2
            /\ SubSeq(str, n - 1, n) = ">>"
            /\ AllChars(ret, WordChars)
            /\ AllChars(ps, LowerChars \cup {","} \cup SpaceChars)
  IN  IF ok THEN [ok |-> TRUE, ret |-> ret, params |-> ps]
      ELSE [ok |-> FALSE, ret |-> "", params |-> ""]

\* /^Fn<(\w+)>$/ : [ok, ret]
MatchFnReturn(str) ==
  LET n == Len(str)
      ret == SubSeq(str, 4, n - 1)
      ok == /\ n >= 5
            /\ SubSeq(str, 1, 3) = "Fn<"
            /\ Chr(str, n) = ">"
            /\ AllChars(ret, WordChars)
  IN  IF ok THEN [ok |-> TRUE, ret |-> ret] ELSE [ok |-> FALSE, ret |-> ""]


\* String(exp): the text a regular expression sees when it is handed a value
\* that is not a string (an array is its elements' texts joined by commas).
RECURSIVE ToText(_)
RECURSIVE JoinText(_)
JoinText(items) ==
  IF Len(items) = 0 THEN ""
  ELSE IF Len(items) = 1 THEN ToText(items[1])
  ELSE ToText(items[1]) \o "," \o JoinText(Tail(items))

ToText(exp) ==
  IF exp.t = "s" THEN exp.v
  ELSE IF exp.t = "num" THEN "0"
  ELSE IF exp.t = "l" THEN JoinText(exp.v)
  ELSE "undefined"

-----------------------------------------------------------------------------
(* The heaps.  A type object has a kind (the class it was built by) and    *)
(* the fields its constructor sets; the fields of other kinds are          *)
(* undefined (0, <<>>).                                                    *)

\* The name of an unnamed Function (null) and the name of a GenericFunction
\* (the options object the inherited constructor stores as its name).
NullName == "#null"

ObjectName == "#object"

MkType(kind, name) ==
  [kind |-> kind, name |-> name, paramTypes |-> <<>>, returnType |-> 0,
   parent |-> 0, superClass |-> 0, env |-> 0, optionTypes |-> <<>>]

\* new Type(name)
NewPrimitive(name) == MkType("prim", name)

\* new Type.Alias({name, parent})
NewAlias(name, parent) == [MkType("alias", name) EXCEPT !.parent = parent]

\* new Type.Union({name, optionTypes})
NewUnion(name, optionTypes) ==
  [MkType("union", name) EXCEPT !.optionTypes = optionTypes]

\* new Type.Class({name, superClass}) with its own environment env
NewClass(name, superClass, env) ==
  [MkType("class", name) EXCEPT !.superClass = superClass, !.env = env]

\* new Type.GenericFunction({...}): the class declares no constructor, so the
\* inherited one stores the options object as the name and nothing else.
NewGenericFunction == MkType("generic", ObjectName)

\* A state of the process while a handler runs.
MkState(ts, es, rg) == [types |-> ts, envs |-> es, reg |-> rg]

\* Type[name] (undefined is 0) and Type.hasOwnProperty(name).
RegGet(rg, name) == IF name \in DOMAIN rg THEN rg[name] ELSE 0

RegHas(rg, name) == name \in DOMAIN rg

RegPut(rg, name, id) ==
  [k \in DOMAIN rg \cup {name} |-> IF k = name THEN id ELSE rg[k]]

KindOf(ts, id) == IF id \in 1..Len(ts) THEN ts[id].kind ELSE "undefined"

-----------------------------------------------------------------------------
(* TypeEnvironment.                                                        *)

\* new TypeEnvironment(record, parent)
NewEnvironment(record, parent) == [record |-> record, parent |-> parent]

EmptyRecord == [k \in {} |-> 0]

\* A define that writes the binding into the parent frame when there is one.
DefineOutward(es, env, name, type) ==
  LET target == IF es[env].parent # 0 THEN es[env].parent ELSE env
  IN  [es EXCEPT ![target].record =
         [k \in DOMAIN @ \cup {name} |-> IF k = name THEN type ELSE @[k]]]

\* define(name, type_): this.record[name] = type_
Define(es, env, name, type) ==
  [es EXCEPT ![env].record =
     [k \in DOMAIN @ \cup {name} |-> IF k = name THEN type ELSE @[k]]]

\* lookup(name): [ok, type]; not ok is the thrown ReferenceError.
Lookup(es, env, name) ==
  IF name \notin DOMAIN es[env].record
    THEN [ok |-> FALSE, type |-> 0]
    ELSE [ok |-> TRUE, type |-> es[env].record[name]]

-----------------------------------------------------------------------------
(* Type.Function: construction and naming.                                 *)

\* The text getName() assembles in its local when this.name is null:
\* Fn<R<P1,...,Pn>>, or Fn<R> without parameters.
RECURSIVE JoinNames(_, _)
JoinNames(ts, ps) ==
  IF Len(ps) = 0 THEN ""
  ELSE IF Len(ps) = 1 THEN ts[ps[1]].name
  ELSE ts[ps[1]].name \o "," \o JoinNames(ts, Tail(ps))

BuiltName(ts, paramTypes, returnType) ==
  "Fn<" \o ts[returnType].name
    \o (IF Len(paramTypes) # 0 THEN "<" \o JoinNames(ts, paramTypes) \o ">" ELSE "")
    \o ">"

\* getName() of a Function whose name field holds name: the assembled text
\* stays in the local and this.name is what is returned.
FunctionGetName(ts, name, paramTypes, returnType) ==
  LET built == IF name = NullName THEN BuiltName(ts, paramTypes, returnType) ELSE name
  IN  name

\* new Type.Function({name = null, paramTypes, returnType})
NewFunction(ts, name, paramTypes, returnType) ==
  [MkType("fn", FunctionGetName(ts, name, paramTypes, returnType))
     EXCEPT !.paramTypes = paramTypes, !.returnType = returnType]


-----------------------------------------------------------------------------
(* equals.  The result is "true", "false", or "throw" (a TypeError from    *)
(* reading a field of undefined).                                          *)

\* this.name === other.name: two strings, null (an unnamed Function) or the
\* options object of a GenericFunction, which is identical only to itself.
NameEq(ts, a, b) ==
  IF ts[a].name = ObjectName \/ ts[b].name = ObjectName
    THEN a = b
    ELSE ts[a].name = ts[b].name

RECURSIVE Equals(_, _, _, _)
RECURSIVE EveryParam(_, _, _, _, _)
RECURSIVE SomeOption(_, _, _, _, _)
RECURSIVE EveryIncluded(_, _, _, _, _)

\* Type.prototype.equals (a Primitive, and a GenericFunction, which inherits it)
TypeEquals(ts, rg, a, b) ==
  IF KindOf(ts, b) = "alias" THEN Equals(ts, rg, b, a)
  ELSE IF KindOf(ts, b) = "union" THEN Equals(ts, rg, b, a)
  ELSE IF b = 0 THEN "throw"
  ELSE IF NameEq(ts, a, b) THEN "true" ELSE "false"

\* The loop of Type.Function.equals over the parameter positions from i on.
EveryParam(ts, rg, a, b, i) ==
  IF i > Len(ts[a].paramTypes) THEN "true"
  ELSE LET r == Equals(ts, rg, ts[a].paramTypes[i], ts[b].paramTypes[i])
       IN  IF r = "true" THEN EveryParam(ts, rg, a, b, i + 1) ELSE r

\* Type.Function.equals: other.paramTypes is undefined unless other is a
\* Function, and reading its length throws.
FunctionEquals(ts, rg, a, b) ==
  IF KindOf(ts, b) # "fn" THEN "throw"
  ELSE IF Len(ts[a].paramTypes) # Len(ts[b].paramTypes) THEN "false"
  ELSE LET ps == EveryParam(ts, rg, a, b, 1)
       IN  IF ps # "true" THEN ps
           ELSE Equals(ts, rg, ts[a].returnType, ts[b].returnType)

\* Type.Alias.equals
AliasEquals(ts, rg, a, b) ==
  IF b = 0 THEN "throw"
  ELSE IF NameEq(ts, a, b) THEN "true"
  ELSE Equals(ts, rg, ts[a].parent, b)

\* A Type.Class.equals that stops at the class itself, without the walk up
\* the superclass chain.
ClassEqualsWithoutChain(ts, rg, a, b) ==
  IF a = b THEN "true"
  ELSE IF KindOf(ts, b) = "alias" THEN Equals(ts, rg, b, a)
  ELSE "false"

\* Type.Class.equals
ClassEquals(ts, rg, a, b) ==
  IF a = b THEN "true"
  ELSE IF KindOf(ts, b) = "alias" THEN Equals(ts, rg, b, a)
  ELSE IF ts[a].superClass # RegGet(rg, "null")
    THEN Equals(ts, rg, ts[a].superClass, b)
  ELSE "false"

\* this.optionTypes.some(t => t.equals(other)) from option i on.
SomeOption(ts, rg, a, b, i) ==
  IF i > Len(ts[a].optionTypes) THEN "false"
  ELSE LET r == Equals(ts, rg, ts[a].optionTypes[i], b)
       IN  IF r = "false" THEN SomeOption(ts, rg, a, b, i + 1) ELSE r

\* The loop of includesAll over types from position i on.
EveryIncluded(ts, rg, a, others, i) ==
  IF i > Len(others) THEN "true"
  ELSE LET r == Equals(ts, rg, a, others[i])
       IN  IF r = "true" THEN EveryIncluded(ts, rg, a, others, i + 1) ELSE r

\* Type.Union.includesAll(types)
IncludesAll(ts, rg, a, others) ==
  IF Len(others) # Len(ts[a].optionTypes) THEN "false"
  ELSE EveryIncluded(ts, rg, a, others, 1)

\* Type.Union.equals
UnionEquals(ts, rg, a, b) ==
  IF a = b THEN "true"
  ELSE IF KindOf(ts, b) = "alias" THEN Equals(ts, rg, b, a)
  ELSE IF KindOf(ts, b) = "union" THEN IncludesAll(ts, rg, a, ts[b].optionTypes)
  ELSE SomeOption(ts, rg, a, b, 1)

\* a.equals(b), dispatched on the class of a; a call on undefined throws.
Equals(ts, rg, a, b) ==
  LET k == KindOf(ts, a)
  IN  IF k = "undefined" THEN "throw"
      ELSE IF k = "fn" THEN FunctionEquals(ts, rg, a, b)
      ELSE IF k = "alias" THEN AliasEquals(ts, rg, a, b)
      ELSE IF k = "class" THEN ClassEquals(ts, rg, a, b)
      ELSE IF k = "union" THEN UnionEquals(ts, rg, a, b)
      ELSE TypeEquals(ts, rg, a, b)


-----------------------------------------------------------------------------
(* Results of the checker's functions: the process state they leave, the   *)
(* type they return (0 is undefined) and the exception they throw ("" is   *)
(* none).  A function that goes on after a call is written as one operator *)
(* per stretch of code between two calls; the operator of a later stretch  *)
(* takes the result of the call before it as its first parameter.          *)

Res(st, ty) == [st |-> st, ty |-> ty, err |-> ""]

Err(st, kind) == [st |-> st, ty |-> 0, err |-> kind]

\* The next free cell of each heap.
AllocType(st, rec) == [st EXCEPT !.types = Append(@, rec)]

AllocEnv(st, rec) == [st EXCEPT !.envs = Append(@, rec)]

\* A list of types under construction by a map(): [st, tys, names, err].
NoTypes(st, err) == [st |-> st, tys |-> <<>>, names |-> <<>>, err |-> err]

ConsType(ty, name, rest) ==
  [st |-> rest.st, tys |-> <<ty>> \o rest.tys,
   names |-> <<name>> \o rest.names, err |-> rest.err]

-----------------------------------------------------------------------------
(* Type.fromString and Type.Function.fromString.                           *)

\* Type.fromString on a word that cannot name a function type: a registry
\* hit or the "Unknown type" throw.
WordFromString(st, word) ==
  IF RegHas(st.reg, word) THEN Res(st, RegGet(st.reg, word))
  ELSE Err(st, "UnknownType")

\* paramsString.split(/,\s*/g).map(param => Type.fromString(param)): the
\* parameter words hold no "<", so each is a registry hit or a throw.
RECURSIVE MapWords(_, _)
MapWords(st, words) ==
  IF Len(words) = 0 THEN NoTypes(st, "")
  ELSE IF ~RegHas(st.reg, words[1]) THEN NoTypes(st, "UnknownType")
  ELSE ConsType(RegGet(st.reg, words[1]), words[1], MapWords(st, Tail(words)))

\* Type[typeStr] = new Type.Function({name: typeStr, paramTypes, returnType})
CacheFunction(st, typeStr, ps, rt) ==
  IF ps.err # "" \/ rt.err # "" THEN Err(st, "UnknownType")
  ELSE Res([AllocType(st, NewFunction(st.types, typeStr, ps.tys, rt.ty))
              EXCEPT !.reg = RegPut(@, typeStr, Len(st.types) + 1)],
           Len(st.types) + 1)

\* Type.Function.fromString(typeStr)
FunctionFromString(st, typeStr) ==
  IF RegHas(st.reg, typeStr) THEN Res(st, RegGet(st.reg, typeStr))
  ELSE IF MatchFnParams(typeStr).ok
    THEN CacheFunction(st, typeStr,
                       MapWords(st, SplitParams(MatchFnParams(typeStr).params)),
                       WordFromString(st, MatchFnParams(typeStr).ret))
  ELSE IF MatchFnReturn(typeStr).ok
    THEN CacheFunction(st, typeStr, NoTypes(st, ""),
                       WordFromString(st, MatchFnReturn(typeStr).ret))
  ELSE Err(st, "UnknownType")

\* Type.fromString(typeStr) for a string
FromString(st, typeStr) ==
  IF RegHas(st.reg, typeStr) THEN Res(st, RegGet(st.reg, typeStr))
  ELSE IF IncludesFn(typeStr) THEN FunctionFromString(st, typeStr)
  ELSE Err(st, "UnknownType")

\* Type.fromString handed a value of the expression tree: hasOwnProperty
\* takes the value's text as the key; includes is a method of strings (and of
\* arrays, where it finds no 'Fn<' element) and a TypeError otherwise.
FromStringExp(st, exp) ==
  IF exp.t = "s" THEN FromString(st, exp.v)
  ELSE IF RegHas(st.reg, ToText(exp)) THEN Res(st, RegGet(st.reg, ToText(exp)))
  ELSE IF exp.t = "l" THEN Err(st, "UnknownType")
  ELSE Err(st, "TypeError")

-----------------------------------------------------------------------------
(* EvaTC: the predicates on expressions.                                   *)

Quote == "\""

\* _isNumber(exp)
IsNumber(exp) == exp.t = "num"

\* _isString(exp)
IsString(exp) ==
  /\ exp.t = "s"
  /\ Len(exp.v) >= 1
  /\ Chr(exp.v, 1) = Quote
  /\ Chr(exp.v, Len(exp.v)) = Quote

\* _isBoolean(exp)
IsBoolean(exp) == exp.t = "s" /\ exp.v \in {"true", "false"}

\* _isBinary(exp): the regular expression sees the text of exp[0]
IsBinary(exp) == ToText(At(exp, 0)) \in {"+", "-", "*", "/"}

\* _isBooleanBinary(exp)
IsBooleanBinary(exp) == Head0(exp) \in {"==", "!=", ">=", "<=", ">", "<"}

\* _isVariableName(exp)
IsVariableName(exp) ==
  /\ exp.t = "s"
  /\ Len(exp.v) >= 1
  /\ AllChars(exp.v, WordChars \cup {"+", "-", "*", "/", "<", ">", "=", ":"})

\* _isGenericLambdaFunction(exp)
IsGenericLambdaFunction(exp) ==
  Length(exp) = 6 /\ AngleInner(ToText(At(exp, 1))) # ""

\* A test that takes no def for a generic one.
NeverGenericDef(exp) == FALSE

\* _isGenericDefFunction(exp)
IsGenericDefFunction(exp) ==
  Length(exp) = 7 /\ AngleInner(ToText(At(exp, 2))) # ""

\* _transformDefToVarLambda(exp)
TransformDefToVarLambda(exp) ==
  IF IsGenericDefFunction(exp)
    THEN L(<<S("var"), At(exp, 1),
             L(<<S("lambda"), At(exp, 2), At(exp, 3), At(exp, 4), At(exp, 5), At(exp, 6)>>)>>)
    ELSE L(<<S("var"), At(exp, 1),
             L(<<S("lambda"), At(exp, 2), At(exp, 3), At(exp, 4), At(exp, 5)>>)>>)

\* value === text for a value of the tree
Is(exp, text) == exp.t = "s" /\ exp.v = text

\* _isTypeCastCondition(condition): op === '==' && lhs[0] === 'typeof'
IsTypeCastCondition(condition) ==
  /\ Is(At(condition, 0), "==")
  /\ Is(At(At(condition, 1), 0), "typeof")

-----------------------------------------------------------------------------
(* EvaTC: _expect and _checkFunctionCall.                                  *)

\* _expect(actualType, expectedType, value, exp)
ExpectResult(st, actualType, eq) ==
  IF eq = "true" THEN Res(st, actualType)
  ELSE IF eq = "false" THEN Err(st, "TypeMismatch")
  ELSE Err(st, "TypeError")

Expect(st, actualType, expectedType) ==
  ExpectResult(st, actualType, Equals(st.types, st.reg, actualType, expectedType))

\* _expect(actual, expectedType, ...) on the result of the call that
\* computed the actual type, once that call has returned.
ExpectAgainst(expectedType, actual) ==
  IF actual.err # "" THEN actual
  ELSE Expect(actual.st, actual.ty, expectedType)

\* The forEach of _checkFunctionCall from argument i on: "" or the first throw.
RECURSIVE ExpectArgs(_, _, _, _)
RECURSIVE ExpectArg(_, _, _, _, _)
ExpectArgs(st, fn, argTypes, i) ==
  IF i > Len(argTypes) THEN ""
  ELSE IF st.types[fn].paramTypes[i] = RegGet(st.reg, "any")
    THEN ExpectArgs(st, fn, argTypes, i + 1)
  ELSE ExpectArg(Expect(st, argTypes[i], st.types[fn].paramTypes[i]),
                 st, fn, argTypes, i)

ExpectArg(e, st, fn, argTypes, i) ==
  IF e.err # "" THEN e.err ELSE ExpectArgs(st, fn, argTypes, i + 1)

\* _checkFunctionCall(fn, argTypes, env, exp): fn.paramTypes is undefined
\* unless fn is a Function.
CheckFunctionCallResult(st, fn, e) ==
  IF e # "" THEN Err(st, e) ELSE Res(st, st.types[fn].returnType)

CheckFunctionCall(st, fn, argTypes) ==
  IF KindOf(st.types, fn) # "fn" THEN Err(st, "TypeError")
  ELSE IF Len(st.types[fn].paramTypes) # Len(argTypes) THEN Err(st, "ArityMismatch")
  ELSE CheckFunctionCallResult(st, fn, ExpectArgs(st, fn, argTypes, 1))

\* lookup(name) as the caller sees it: the type, or the ReferenceError.
LookupResult(st, env, name) ==
  IF Lookup(st.envs, env, name).ok
    THEN Res(st, Lookup(st.envs, env, name).type)
    ELSE Err(st, "ReferenceError")

\* getField(name): a method of Class alone.
GetField(st, type, name) ==
  IF KindOf(st.types, type) # "class" THEN Err(st, "TypeError")
  ELSE LookupResult(st, st.types[type].env, name)

\* env.define(name, type_) as the caller sees it: the type defined.
DefineResult(st, env, name, type) ==
  Res([st EXCEPT !.envs = Define(@, env, name, type)], type)

\* _checkArity(exp, arity)
CheckArity(exp, arity) == Length(exp) - 1 = arity


-----------------------------------------------------------------------------
(* EvaTC: the checker.  Every function takes the process state and returns *)
(* a result holding the state it leaves.                                   *)

RECURSIVE Tc(_, _, _)
RECURSIVE TcBlock(_, _, _, _, _)
RECURSIVE TcBlockNext(_, _, _, _)
RECURSIVE TcArgs(_, _, _, _)
RECURSIVE TcArgsNext(_, _, _, _)
RECURSIVE TcFunctionParams(_, _, _, _)
RECURSIVE TcFunctionBody(_, _, _, _)
RECURSIVE TcFunctionReturn(_, _, _)
RECURSIVE BinaryRight(_, _, _)
RECURSIVE BooleanBinaryRight(_, _, _)

\* params.map/forEach(([name, typeStr]) => Type.fromString(typeStr)) from
\* position i on: the types in order and the names they are bound to.  A
\* parameter that is not iterable (a number, undefined) is a TypeError.
RECURSIVE BindParams(_, _, _)
RECURSIVE BindParam(_, _, _)
BindParams(st, params, i) ==
  IF i > Len(params.v) THEN NoTypes(st, "")
  ELSE IF params.v[i].t \notin {"l", "s"} THEN NoTypes(st, "TypeError")
  ELSE BindParam(FromStringExp(st, At(params.v[i], 1)), params, i)

BindParam(paramType, params, i) ==
  IF paramType.err # "" THEN NoTypes(paramType.st, paramType.err)
  ELSE ConsType(paramType.ty, ToText(At(params.v[i], 0)),
                BindParams(paramType.st, params, i + 1))

\* paramsRecord: the last binding of a repeated parameter name wins.
ParamsRecord(names, tys) ==
  [k \in {names[i] : i \in 1..Len(names)} |->
     tys[CHOOSE i \in 1..Len(names) :
           names[i] = k /\ \A j \in (i + 1)..Len(names) : names[j] # k]]

\* argValues.map(arg => this.tc(arg, env)) from position i on
TcArgs(st, args, i, env) ==
  IF i > Len(args) THEN NoTypes(st, "")
  ELSE TcArgsNext(Tc(st, args[i], env), args, i, env)

TcArgsNext(argType, args, i, env) ==
  IF argType.err # "" THEN NoTypes(argType.st, argType.err)
  ELSE ConsType(argType.ty, "", TcArgs(argType.st, args, i + 1, env))

\* _tcBody(body, env)
TcBody(st, body, env) ==
  IF body.t = "undef" THEN Err(st, "TypeError")
  ELSE IF Head0(body) = "begin" /\ body.t = "l"
    THEN TcBlock(st, body.v, 2, env, 0)
  ELSE Tc(st, body, env)

\* _tcBlock(block, env): the expressions from position i on; result is the
\* type of the last one checked (undefined for an empty block).
TcBlock(st, items, i, env, result) ==
  IF i > Len(items) THEN Res(st, result)
  ELSE TcBlockNext(Tc(st, items[i], env), items, i, env)

\* A block that goes on with the next expression after one has thrown.
TcBlockNextAfterError(r, items, i, env) ==
  TcBlock(r.st, items, i + 1, env, r.ty)

TcBlockNext(r, items, i, env) ==
  IF r.err # "" THEN r ELSE TcBlock(r.st, items, i + 1, env, r.ty)

\* _tcFunction(params, returnTypeStr, body, env)
TcFunction(st, params, returnTypeStr, body, env) ==
  TcFunctionParams(FromStringExp(st, returnTypeStr), params, body, env)

\* ... params.forEach: a string or undefined has no forEach
TcFunctionParams(returnType, params, body, env) ==
  IF returnType.err # "" THEN returnType
  ELSE IF params.t # "l" THEN Err(returnType.st, "TypeError")
  ELSE TcFunctionBody(returnType.ty, BindParams(returnType.st, params, 1), body, env)

\* ... fnEnv = new TypeEnvironment(paramsRecord, env); _tcBody(body, fnEnv)
TcFunctionBody(returnType, bound, body, env) ==
  IF bound.err # "" THEN Err(bound.st, bound.err)
  ELSE TcFunctionReturn(
         returnType, bound.tys,
         TcBody(AllocEnv(bound.st,
                         NewEnvironment(ParamsRecord(bound.names, bound.tys), env)),
                body, Len(bound.st.envs) + 1))

\* ... new Type.Function({paramTypes, returnType}) once the return type is
\* checked
TcFunctionResult(st, returnType, paramTypes, eq) ==
  IF eq = "throw" THEN Err(st, "TypeError")
  ELSE IF eq = "false" THEN Err(st, "ReturnMismatch")
  ELSE Res(AllocType(st, NewFunction(st.types, NullName, paramTypes, returnType)),
           Len(st.types) + 1)

\* ... returnType.equals(actualReturnType)
TcFunctionReturn(returnType, paramTypes, actual) ==
  IF actual.err # "" THEN actual
  ELSE TcFunctionResult(actual.st, returnType, paramTypes,
                        Equals(actual.st.types, actual.st.reg, returnType, actual.ty))

\* _binary(exp, env)
Binary(st, exp, env) ==
  IF ~CheckArity(exp, 2) THEN Err(st, "OperatorArity")
  ELSE BinaryRight(Tc(st, At(exp, 1), env), exp, env)

\* ... t2 = this.tc(exp[2], env); return this._expect(t2, t1, exp[2], exp)
BinaryRight(t1, exp, env) ==
  IF t1.err # "" THEN t1
  ELSE ExpectAgainst(t1.ty, Tc(t1.st, At(exp, 2), env))

\* _booleanBinary(exp, env)
BooleanBinary(st, exp, env) ==
  IF ~CheckArity(exp, 2) THEN Err(st, "OperatorArity")
  ELSE BooleanBinaryRight(Tc(st, At(exp, 1), env), exp, env)

\* ... return Type.boolean
BooleanResult(e) ==
  IF e.err # "" THEN e ELSE Res(e.st, RegGet(e.st.reg, "boolean"))

\* ... t2 = this.tc(exp[2], env); this._expect(t2, t1, exp[2], exp)
BooleanBinaryRight(t1, exp, env) ==
  IF t1.err # "" THEN t1
  ELSE BooleanResult(ExpectAgainst(t1.ty, Tc(t1.st, At(exp, 2), env)))

\* options.map(option => Type.fromString(option)) from position i on
RECURSIVE MapOptions(_, _, _)
RECURSIVE MapOption(_, _, _)
MapOptions(st, options, i) ==
  IF i > Len(options) THEN NoTypes(st, "")
  ELSE MapOption(FromStringExp(st, options[i]), options, i)

MapOption(optionType, options, i) ==
  IF optionType.err # "" THEN NoTypes(optionType.st, optionType.err)
  ELSE ConsType(optionType.ty, "", MapOptions(optionType.st, options, i + 1))

\* Type[name] = new Type.Union({name, optionTypes})
TcTypeUnion(name, options) ==
  IF options.err # "" THEN Err(options.st, options.err)
  ELSE Res([AllocType(options.st, NewUnion(name, options.tys))
              EXCEPT !.reg = RegPut(@, name, Len(options.st.types) + 1)],
           Len(options.st.types) + 1)

\* An alias declaration without the test for a name already registered.
TcTypeAliasOverwriting(st, name, base) ==
  IF ~RegHas(st.reg, base) THEN Err(st, "NotDefined")
  ELSE Res([AllocType(st, NewAlias(name, RegGet(st.reg, base)))
              EXCEPT !.reg = RegPut(@, name, Len(st.types) + 1)],
           Len(st.types) + 1)

\* Type[name] = new Type.Alias({name, parent: Type[base]})
TcTypeAlias(st, name, base) ==
  IF RegHas(st.reg, name) THEN Err(st, "AlreadyDefined")
  ELSE IF ~RegHas(st.reg, base) THEN Err(st, "NotDefined")
  ELSE Res([AllocType(st, NewAlias(name, RegGet(st.reg, base)))
              EXCEPT !.reg = RegPut(@, name, Len(st.types) + 1)],
           Len(st.types) + 1)

\* tc, (type <name> <base>)
TcType(st, exp, env) ==
  IF At(exp, 2).t = "undef" THEN Err(st, "TypeError")
  ELSE IF Head0(At(exp, 2)) = "or" /\ At(exp, 2).t = "l"
    THEN TcTypeUnion(ToText(At(exp, 1)),
                     MapOptions(st, SliceFrom(At(exp, 2), 1).v, 1))
  ELSE TcTypeAlias(st, ToText(At(exp, 1)), ToText(At(exp, 2)))

\* Type[superClassName], Type.null when that is undefined
SuperClassOf(st, exp) ==
  IF RegGet(st.reg, ToText(At(exp, 2))) = 0
    THEN RegGet(st.reg, "null")
    ELSE RegGet(st.reg, ToText(At(exp, 2)))

\* superClass != Type.null ? superClass.env : null
ParentEnvOf(st, superClass) ==
  IF superClass # RegGet(st.reg, "null") THEN st.types[superClass].env ELSE 0

\* A class declaration that makes the new class its own superclass.
DeclareClassUnderItself(st, name, superClass, env) ==
  [st EXCEPT
     !.envs = Define(Append(@, NewEnvironment(EmptyRecord, ParentEnvOf(st, superClass))),
                     env, name, Len(st.types) + 1),
     !.types = Append(@, NewClass(name, Len(st.types) + 1, Len(st.envs) + 1)),
     !.reg = RegPut(@, name, Len(st.types) + 1)]

\* new Type.Class({name, superClass}); Type[name] = env.define(name, classType)
DeclareClass(st, name, superClass, env) ==
  [st EXCEPT
     !.envs = Define(Append(@, NewEnvironment(EmptyRecord, ParentEnvOf(st, superClass))),
                     env, name, Len(st.types) + 1),
     !.types = Append(@, NewClass(name, superClass, Len(st.envs) + 1)),
     !.reg = RegPut(@, name, Len(st.types) + 1)]

\* ... return classType
TcClassResult(classType, body) ==
  IF body.err # "" THEN body ELSE Res(body.st, classType)

\* tc, (class <Name> <Super> <Body>)
TcClass(st, exp, env) ==
  TcClassResult(Len(st.types) + 1,
                TcBody(DeclareClass(st, ToText(At(exp, 1)), SuperClassOf(st, exp), env),
                       At(exp, 3), Len(st.envs) + 1))

\* ... _checkFunctionCall(classType.getField('constructor'), [classType, ...argTypes])
TcNewCall(classType, args, constructor) ==
  IF constructor.err # "" THEN constructor
  ELSE CheckFunctionCall(args.st, constructor.ty, <<classType>> \o args.tys)

TcNewConstructor(classType, args) ==
  IF args.err # "" THEN Err(args.st, args.err)
  ELSE TcNewCall(classType, args, GetField(args.st, classType, "constructor"))

\* tc, (new <Class> <Arguments>...): a missing class throws (the message
\* reads a name that is not in scope, a ReferenceError).
TcNew(st, exp, env) ==
  IF RegGet(st.reg, ToText(At(exp, 1))) = 0 THEN Err(st, "ReferenceError")
  ELSE TcNewConstructor(RegGet(st.reg, ToText(At(exp, 1))),
                        TcArgs(st, SliceFrom(exp, 2).v, 1, env))

\* tc, (super <ClassName>)
TcSuper(st, exp) ==
  IF RegGet(st.reg, ToText(At(exp, 1))) = 0 THEN Err(st, "ReferenceError")
  ELSE Res(st, st.types[RegGet(st.reg, ToText(At(exp, 1)))].superClass)

\* ... instanceType.getField(name)
TcPropField(instanceType, name) ==
  IF instanceType.err # "" THEN instanceType
  ELSE GetField(instanceType.st, instanceType.ty, name)

\* tc, (prop <instance> <name>)
TcProp(st, exp, env) ==
  TcPropField(Tc(st, At(exp, 1), env), ToText(At(exp, 2)))

\* ... env.define(varName, expectedType) once the value is checked against it
TcVarDefine(e, env, varName, expectedType) ==
  IF e.err # "" THEN e ELSE DefineResult(e.st, env, varName, expectedType)

\* ... _expect(valueType, expectedType, value, exp)
TcVarExpect(expectedType, valueType, env, varName) ==
  IF expectedType.err # "" THEN expectedType
  ELSE TcVarDefine(Expect(expectedType.st, valueType, expectedType.ty),
                   env, varName, expectedType.ty)

\* ... if (Array.isArray(name)) expectedType = Type.fromString(typeStr)
TcVarValue(valueType, name, env) ==
  IF valueType.err # "" THEN valueType
  ELSE IF IsArray(name)
    THEN TcVarExpect(FromStringExp(valueType.st, At(name, 1)), valueType.ty,
                     env, ToText(At(name, 0)))
  ELSE DefineResult(valueType.st, env, ToText(name), valueType.ty)

\* tc, (var x value) and (var (x type) value)
TcVar(st, exp, env) ==
  TcVarValue(Tc(st, At(exp, 2), env), At(exp, 1), env)

\* ... _expect(valueType, propType, value, exp)
TcSetExpect(valueType, target) ==
  IF target.err # "" THEN target
  ELSE Expect(target.st, valueType, target.ty)

\* ... propType = instanceType.getField(propName)
TcSetPropField(instanceType, valueType, propName) ==
  IF valueType.err # "" THEN valueType
  ELSE TcSetExpect(valueType.ty, GetField(valueType.st, instanceType, propName))

\* ... valueType = this.tc(value, env)
TcSetPropValue(instanceType, exp, env) ==
  IF instanceType.err # "" THEN instanceType
  ELSE TcSetPropField(instanceType.ty, Tc(instanceType.st, At(exp, 2), env),
                      ToText(At(At(exp, 1), 2)))

\* ... varType = this.tc(ref, env)
TcSetVar(valueType, exp, env) ==
  IF valueType.err # "" THEN valueType
  ELSE TcSetExpect(valueType.ty, Tc(valueType.st, At(exp, 1), env))

\* tc, (set x value) and (set (prop <instance> <propName>) value)
TcSet(st, exp, env) ==
  IF At(exp, 1).t = "undef" THEN Err(st, "TypeError")
  ELSE IF Head0(At(exp, 1)) = "prop" /\ At(exp, 1).t = "l"
    THEN TcSetPropValue(Tc(st, At(At(exp, 1), 1), env), exp, env)
  ELSE TcSetVar(Tc(st, At(exp, 2), env), exp, env)

\* specificType.slice(1, -1): the text without its first and last character;
\* a number has no slice.
Slice1(exp) ==
  IF exp.t = "s" THEN S(SubSeq(exp.v, 2, Len(exp.v) - 1))
  ELSE IF exp.t = "l" THEN L(SubSeq(exp.v, 2, Len(exp.v) - 1))
  ELSE Undef

\* _getSpecifiedType(condition): [name, specificType.slice(1, -1)]
GetSpecifiedType(condition) ==
  [name |-> ToText(At(At(condition, 1), 1)), type |-> Slice1(At(condition, 2))]

\* ... t3 = this.tc(alternate, env); return this._expect(t3, t2, exp, exp)
TcIfAlternate(t2, exp, env) ==
  IF t2.err # "" THEN t2
  ELSE ExpectAgainst(t2.ty, Tc(t2.st, At(exp, 3), env))

\* ... t2 = this.tc(consequent, consequentEnv)
TcIfConsequent(st, exp, consequentEnv, env) ==
  TcIfAlternate(Tc(st, At(exp, 2), consequentEnv), exp, env)

\* A narrowing that rebinds the name in the environment of the if itself,
\* without a child scope.
TcIfNarrowInPlace(narrowed, name, exp, env) ==
  IF narrowed.err # "" THEN narrowed
  ELSE TcIfConsequent(
         [narrowed.st EXCEPT !.envs = Define(@, env, name, narrowed.ty)],
         exp, env, env)

\* ... consequentEnv = new TypeEnvironment({[name]: Type.fromString(specificType)}, env)
TcIfNarrow(narrowed, name, exp, env) ==
  IF narrowed.err # "" THEN narrowed
  ELSE TcIfConsequent(
         AllocEnv(narrowed.st,
                  NewEnvironment(ParamsRecord(<<name>>, <<narrowed.ty>>), env)),
         exp, Len(narrowed.st.envs) + 1, env)

\* An if that checks its then-branch where it was checked itself, type cast
\* or not.
TcIfCastIgnored(e1, exp, env) ==
  IF e1.err # "" THEN e1
  ELSE TcIfConsequent(e1.st, exp, env, env)

\* ... if (this._isTypeCastCondition(condition))
TcIfCast(e1, exp, env) ==
  IF e1.err # "" THEN e1
  ELSE IF ~IsTypeCastCondition(At(exp, 1)) THEN TcIfConsequent(e1.st, exp, env, env)
  ELSE IF At(At(exp, 1), 2).t \in {"num", "undef"} THEN Err(e1.st, "TypeError")
  ELSE TcIfNarrow(FromStringExp(e1.st, GetSpecifiedType(At(exp, 1)).type),
                  GetSpecifiedType(At(exp, 1)).name, exp, env)

\* ... this._expect(t1, Type.boolean, condition, exp)
TcIfCondition(t1, exp, env) ==
  IF t1.err # "" THEN t1
  ELSE TcIfCast(Expect(t1.st, t1.ty, RegGet(t1.st.reg, "boolean")), exp, env)

\* tc, (if condition consequent alternate)
TcIf(st, exp, env) ==
  TcIfCondition(Tc(st, At(exp, 1), env), exp, env)

\* ... return this.tc(body, env)
TcWhileBody(e1, exp, env) ==
  IF e1.err # "" THEN e1 ELSE Tc(e1.st, At(exp, 2), env)

\* ... this._expect(t1, Type.boolean, condition, exp)
TcWhileCondition(t1, exp, env) ==
  IF t1.err # "" THEN t1
  ELSE TcWhileBody(Expect(t1.st, t1.ty, RegGet(t1.st.reg, "boolean")), exp, env)

\* tc, (while condition body)
TcWhile(st, exp, env) ==
  TcWhileCondition(Tc(st, At(exp, 1), env), exp, env)

\* ... env.define(name, new Type.Function({paramTypes, returnType})); then
\* return this.tc(varExp, env)
TcDefDefine(returnType, paramTypes, exp, env) ==
  IF returnType.err # "" THEN returnType
  ELSE Tc([AllocType(returnType.st,
                     NewFunction(returnType.st.types, NullName, paramTypes, returnType.ty))
             EXCEPT !.envs = Define(@, env, ToText(At(exp, 1)),
                                    Len(returnType.st.types) + 1)],
          TransformDefToVarLambda(exp), env)

\* ... returnType: Type.fromString(returnTypeStr)
TcDefReturn(bound, exp, env) ==
  IF bound.err # "" THEN Err(bound.st, bound.err)
  ELSE TcDefDefine(FromStringExp(bound.st, At(exp, 4)), bound.tys, exp, env)

\* tc, (def name params -> returnType body): a def without generic
\* parameters binds name to the declared signature before the body is
\* checked; params.map is a method of arrays alone.
TcDef(st, exp, env) ==
  IF IsGenericDefFunction(exp) THEN Tc(st, TransformDefToVarLambda(exp), env)
  ELSE IF At(exp, 2).t # "l" THEN Err(st, "TypeError")
  ELSE TcDefReturn(BindParams(st, At(exp, 2), 1), exp, env)

\* _createGenericFunctionType(exp, env): genericTypes.slice(1, -1) and the
\* other options go to a constructor that keeps none of them.
CreateGenericFunctionType(st, exp, env) ==
  Res(AllocType(st, NewGenericFunction), Len(st.types) + 1)

\* _createSimpleFunctionType(exp, env)
CreateSimpleFunctionType(st, exp, env) ==
  TcFunction(st, At(exp, 1), At(exp, 3), At(exp, 4), env)

\* tc, (lambda ...)
TcLambda(st, exp, env) ==
  IF IsGenericLambdaFunction(exp) THEN CreateGenericFunctionType(st, exp, env)
  ELSE CreateSimpleFunctionType(st, exp, env)

\* _extractActulCallTypes(exp): [ok, types]; not ok is the throw.
ExtractActulCallTypes(exp) ==
  IF AngleInner(ToText(At(exp, 1))) = "" THEN [ok |-> FALSE, types |-> <<>>]
  ELSE [ok |-> TRUE, types |-> SplitComma(AngleInner(ToText(At(exp, 1))))]

\* fn.genericTypes of a GenericFunction: a field no constructor sets.
GenericTypesOf(st, fn) == Undef

\* _getGenericTypesMap(genericTypes, actualType): the loop bound reads
\* genericTypes.length; [ok, map], not ok is the TypeError on undefined.
GetGenericTypesMap(genericTypes, actualTypes) ==
  IF genericTypes.t # "l" THEN [ok |-> FALSE, map |-> EmptyRecord]
  ELSE [ok |-> TRUE,
        map |-> [k \in {ToText(genericTypes.v[i]) : i \in 1..Len(genericTypes.v)} |->
                   LET i == CHOOSE j \in 1..Len(genericTypes.v) :
                              /\ ToText(genericTypes.v[j]) = k
                              /\ \A m \in (j + 1)..Len(genericTypes.v) :
                                   ToText(genericTypes.v[m]) # k
                   IN  IF i <= Len(actualTypes) THEN actualTypes[i] ELSE "undefined"]]

\* A call of a GenericFunction: it stops in _getGenericTypesMap, before
\* _bindFunctionTypes (which reads fn.params.length, undefined as well) and
\* _tcFunction, whenever fn.genericTypes is undefined.
TcGenericCall(st, fn, exp) ==
  IF ~ExtractActulCallTypes(exp).ok THEN Err(st, "NoActualTypes")
  ELSE IF ~GetGenericTypesMap(GenericTypesOf(st, fn),
                              ExtractActulCallTypes(exp).types).ok
    THEN Err(st, "TypeError")
  ELSE Err(st, "TypeError")

\* ... return this._checkFunctionCall(actualFn, argTypes, env, exp)
TcCallArgs(fn, args) ==
  IF args.err # "" THEN Err(args.st, args.err)
  ELSE CheckFunctionCall(args.st, fn, args.tys)

\* ... if (fn instanceof Type.GenericFunction)
TcCallFn(fn, exp, env) ==
  IF fn.err # "" THEN fn
  ELSE IF KindOf(fn.st.types, fn.ty) = "generic" THEN TcGenericCall(fn.st, fn.ty, exp)
  ELSE TcCallArgs(fn.ty, TcArgs(fn.st, SliceFrom(exp, 1).v, 1, env))

\* tc, function calls: (fn args...) and (fn <types> args...)
TcCall(st, exp, env) ==
  TcCallFn(Tc(st, At(exp, 0), env), exp, env)

\* tc(exp, env)
Tc(st, exp, env) ==
  IF exp.t = "undef" THEN Err(st, "TypeError")
  ELSE IF IsNumber(exp) THEN Res(st, RegGet(st.reg, "number"))
  ELSE IF IsString(exp) THEN Res(st, RegGet(st.reg, "string"))
  ELSE IF IsBoolean(exp) THEN Res(st, RegGet(st.reg, "boolean"))
  ELSE IF IsBinary(exp) THEN Binary(st, exp, env)
  ELSE IF IsBooleanBinary(exp) THEN BooleanBinary(st, exp, env)
  ELSE IF Head0(exp) = "type" THEN TcType(st, exp, env)
  ELSE IF Head0(exp) = "class" THEN TcClass(st, exp, env)
  ELSE IF Head0(exp) = "new" THEN TcNew(st, exp, env)
  ELSE IF Head0(exp) = "super" THEN TcSuper(st, exp)
  ELSE IF Head0(exp) = "prop" THEN TcProp(st, exp, env)
  ELSE IF Head0(exp) = "var" THEN TcVar(st, exp, env)
  ELSE IF IsVariableName(exp) THEN LookupResult(st, env, exp.v)
  ELSE IF Head0(exp) = "set" THEN TcSet(st, exp, env)
  ELSE IF Head0(exp) = "begin"
    THEN TcBlock(AllocEnv(st, NewEnvironment(EmptyRecord, env)), exp.v, 2,
                 Len(st.envs) + 1, 0)
  ELSE IF Head0(exp) = "if" THEN TcIf(st, exp, env)
  ELSE IF Head0(exp) = "while" THEN TcWhile(st, exp, env)
  ELSE IF Head0(exp) = "def" THEN TcDef(st, exp, env)
  ELSE IF Head0(exp) = "lambda" THEN TcLambda(st, exp, env)
  ELSE IF IsArray(exp) THEN TcCall(st, exp, env)
  ELSE Err(st, "UnknownExpression")

\* tcGlobal(exp)
TcGlobalBody(st, exp, g) == TcBody(st, exp, g)

-----------------------------------------------------------------------------
(* The process and the checker instance.                                   *)

\* Type.number ... Type.any, set when Type.js is loaded.
LoadedTypes ==
  <<NewPrimitive("number"), NewPrimitive("string"), NewPrimitive("boolean"),
    NewPrimitive("null"), NewPrimitive("any")>>

LoadedReg ==
  [k \in {"number", "string", "boolean", "null", "any"} |->
     CHOOSE i \in 1..Len(LoadedTypes) : LoadedTypes[i].name = k]

Loaded == MkState(LoadedTypes, <<>>, LoadedReg)

\* _createGlobal(): the object literal is evaluated in the order it lists
\* its properties, so the three signatures are parsed (and cached in Type)
\* in that order.
GlobalRecord(version, sum, square, typeof) ==
  AllocEnv(typeof.st,
           NewEnvironment(ParamsRecord(<<"VERSION", "sum", "square", "typeof">>,
                                       <<version, sum, square, typeof.ty>>), 0))

GlobalTypeof(version, sum, square) ==
  GlobalRecord(version, sum, square.ty, FromString(square.st, "Fn<string<any>>"))

GlobalSquare(version, sum) ==
  GlobalTypeof(version, sum.ty, FromString(sum.st, "Fn<number<number>>"))

CreateGlobal(st) ==
  GlobalSquare(RegGet(st.reg, "string"), FromString(st, "Fn<number<number,number>>"))

\* What the last call was and how it ended.
Outcome(op, exp, env, r) ==
  [op |-> op, exp |-> exp, env |-> env, ty |-> r.ty, err |-> r.err]

Current == MkState(types, envs, reg)

\* The state a constructor leaves: this.global is the environment it made.
Constructed(st) ==
  /\ types = st.types
  /\ envs = st.envs
  /\ reg = st.reg
  /\ global = Len(st.envs)
  /\ last = Outcome("new", Undef, Len(st.envs), Res(st, 0))
  /\ calls = 0

\* The state after Type.js is loaded and the first new EvaTC().
Init == Constructed(CreateGlobal(Loaded))

\* The state a call leaves, whether it returned or threw.
Commit(op, exp, g, r) ==
  /\ calls' = calls + 1
  /\ types' = r.st.types
  /\ envs' = r.st.envs
  /\ reg' = r.st.reg
  /\ global' = g
  /\ last' = Outcome(op, exp, g, r)

\* new EvaTC(): another checker instance in the same process.
NewEvaTC ==
  /\ calls < MaxCalls
  /\ Commit("new", Undef, Len(envs) + 1, Res(CreateGlobal(Current), 0))

\* tcGlobal(exp)
TcGlobal(exp) ==
  /\ calls < MaxCalls
  /\ Commit("tcGlobal", exp, global, TcGlobalBody(Current, exp, global))

\* tc(exp), env defaulting to this.global
TcDefault(exp) ==
  /\ calls < MaxCalls
  /\ Commit("tc", exp, global, Tc(Current, exp, global))

-----------------------------------------------------------------------------
(* Programs: functions, recursion, generic calls and blocks.               *)

\* (def fact ((n number)) -> number (if (== n 0) 1 (* n (fact (- n 1)))))
FactDef ==
  L(<<S("def"), S("fact"), L(<<L(<<S("n"), S("number")>>)>>), S("->"), S("number"), L(<<S("if"), L(<<S("=="), S("n"), N>>), N, L(<<S("*"), S("n"), L(<<S("fact"), L(<<S("-"), S("n"), N>>)>>)>>)>>)>>)

\* (def sq ((n number)) -> number (* n n))
SqDef ==
  L(<<S("def"), S("sq"), L(<<L(<<S("n"), S("number")>>)>>), S("->"), S("number"), L(<<S("*"), S("n"), S("n")>>)>>)

\* (def id <T> ((x T)) -> T x)
IdDef ==
  L(<<S("def"), S("id"), S("<T>"), L(<<L(<<S("x"), S("T")>>)>>), S("->"), S("T"), S("x")>>)

\* (id <number> 5)
IdNumberCall ==
  L(<<S("id"), S("<number>"), N>>)

\* (id <string> "a")
IdStringCall ==
  L(<<S("id"), S("<string>"), S("\"a\"")>>)

\* (id 5)
IdBareCall ==
  L(<<S("id"), N>>)

\* (id (<number>) 5)
IdListCall ==
  L(<<S("id"), L(<<S("<number>")>>), N>>)

\* (id)
IdNoArgCall ==
  L(<<S("id")>>)

\* (sq 2)
SqCall ==
  L(<<S("sq"), N>>)

\* (begin (var x 1) (begin x))
BlockLookup ==
  L(<<S("begin"), L(<<S("var"), S("x"), N>>), L(<<S("begin"), S("x")>>)>>)

\* (begin (var y 1) y)
BlockLocal ==
  L(<<S("begin"), L(<<S("var"), S("y"), N>>), S("y")>>)

FunctionPrograms ==
  {FactDef, SqDef, IdDef, IdNumberCall, IdStringCall, IdBareCall, IdListCall,
   IdNoArgCall, SqCall, BlockLookup, BlockLocal}

BlockPrograms == {BlockLookup, BlockLocal, IdBareCall}

Next ==
  \/ NewEvaTC
  \/ \E exp \in FunctionPrograms : TcGlobal(exp)
  \/ \E exp \in BlockPrograms : TcDefault(exp)

Spec == Init /\ [][Next]_vars

-----------------------------------------------------------------------------
(* Environments and functions: what the specification says of them.        *)

\* The nearest frame that defines name on the chain that starts at env and
\* goes outward through the parents; 0 when no frame on the chain does.
RECURSIVE NearestFrame(_, _, _)
NearestFrame(es, env, name) ==
  IF env = 0 THEN 0
  ELSE IF name \in DOMAIN es[env].record THEN env
  ELSE NearestFrame(es, es[env].parent, name)

\* Every name bound in some environment of the heap.
BoundNames == UNION {DOMAIN envs[env].record : env \in 1..Len(envs)}

\* C1: for every chain of environments and every name, lookup(name) returns
\* the type bound in the nearest frame of the chain that defines the name,
\* and fails only when no frame of the chain defines it.
C1_LookupNearestFrame ==
  \A env \in 1..Len(envs) : \A name \in BoundNames :
    IF NearestFrame(envs, env, name) = 0
      THEN ~Lookup(envs, env, name).ok
      ELSE Lookup(envs, env, name) =
             [ok |-> TRUE,
              type |-> envs[NearestFrame(envs, env, name)].record[name]]

\* The last call returned a Function type with these parameter and return
\* types.
ReturnedFunction(paramTypes, returnType) ==
  /\ last.err = ""
  /\ KindOf(types, last.ty) = "fn"
  /\ types[last.ty].paramTypes = paramTypes
  /\ types[last.ty].returnType = returnType

\* C2: checking the recursive (def fact ((n number)) -> number ...) succeeds
\* and returns the Function type from number to number.
C2_RecursiveDefChecks ==
  last.exp = FactDef =>
    ReturnedFunction(<<RegGet(reg, "number")>>, RegGet(reg, "number"))

\* The name is bound, in the environment the last call ran in, to a
\* GenericFunction.
BoundToGeneric(name) ==
  /\ name \in DOMAIN envs[last.env].record
  /\ KindOf(types, envs[last.env].record[name]) = "generic"

\* C5: after (def id <T> ((x T)) -> T x), the call (id <number> 5) returns
\* number and the call (id <string> "a") returns string.
C5_GenericCallReturnsActualType ==
  /\ (last.exp = IdNumberCall /\ BoundToGeneric("id")) =>
       (last.err = "" /\ last.ty = RegGet(reg, "number"))
  /\ (last.exp = IdStringCall /\ BoundToGeneric("id")) =>
       (last.err = "" /\ last.ty = RegGet(reg, "string"))

\* The second element of a call is a <...> list of actual types: a string
\* that opens with "<", closes with ">" and holds at least one character
\* between them.
IsActualTypeList(exp) ==
  /\ exp.t = "s"
  /\ AngleInner(exp.v) # ""

\* The last call was a call of a name bound to a GenericFunction.
GenericCall ==
  /\ last.exp.t = "l"
  /\ Length(last.exp) >= 1
  /\ At(last.exp, 0).t = "s"
  /\ IsVariableName(At(last.exp, 0))
  /\ ~IsBinary(last.exp)
  /\ ~IsBooleanBinary(last.exp)
  /\ BoundToGeneric(At(last.exp, 0).v)

\* C6: a call of a GenericFunction whose second element is not a <...> list
\* of actual types fails with the missing-actual-types error.
C6_GenericCallWithoutActualTypes ==
  (GenericCall /\ ~IsActualTypeList(At(last.exp, 1))) =>
    last.err = "NoActualTypes"

-----------------------------------------------------------------------------
(* Programs: classes.  Every class extends null, a class declared before   *)
(* it or a primitive type, and every constructor returns its class.        *)

\* (class Base null (begin (var x 1) (def constructor ((self Base) (v number)) -> Base self)))
ClassBase ==
  L(<<S("class"), S("Base"), S("null"), L(<<S("begin"), L(<<S("var"), S("x"), N>>), L(<<S("def"), S("constructor"), L(<<L(<<S("self"), S("Base")>>), L(<<S("v"), S("number")>>)>>), S("->"), S("Base"), S("self")>>)>>)>>)

\* (class Sub Base (begin (var y "a")))
ClassSub ==
  L(<<S("class"), S("Sub"), S("Base"), L(<<S("begin"), L(<<S("var"), S("y"), S("\"a\"")>>)>>)>>)

\* (class SubOwn Base (begin (def constructor ((self SubOwn)) -> SubOwn self)))
ClassSubOwn ==
  L(<<S("class"), S("SubOwn"), S("Base"), L(<<S("begin"), L(<<S("def"), S("constructor"), L(<<L(<<S("self"), S("SubOwn")>>)>>), S("->"), S("SubOwn"), S("self")>>)>>)>>)

\* (class Leaf SubOwn (begin (var z 1)))
ClassLeaf ==
  L(<<S("class"), S("Leaf"), S("SubOwn"), L(<<S("begin"), L(<<S("var"), S("z"), N>>)>>)>>)

\* (class Odd number (begin (var w 1)))
ClassOdd ==
  L(<<S("class"), S("Odd"), S("number"), L(<<S("begin"), L(<<S("var"), S("w"), N>>)>>)>>)

\* (class Other null (begin (def constructor ((self Other)) -> Other self)))
ClassOther ==
  L(<<S("class"), S("Other"), S("null"), L(<<S("begin"), L(<<S("def"), S("constructor"), L(<<L(<<S("self"), S("Other")>>)>>), S("->"), S("Other"), S("self")>>)>>)>>)

\* (new Base 1)
NewBase ==
  L(<<S("new"), S("Base"), N>>)

\* (new Sub 1)
NewSub ==
  L(<<S("new"), S("Sub"), N>>)

\* (prop (new Base 1) x)
PropOwn ==
  L(<<S("prop"), L(<<S("new"), S("Base"), N>>), S("x")>>)

\* (prop (new SubOwn) x)
PropInherited ==
  L(<<S("prop"), L(<<S("new"), S("SubOwn")>>), S("x")>>)

\* (var (b Base) (new SubOwn))
VarBaseFromSubOwn ==
  L(<<S("var"), L(<<S("b"), S("Base")>>), L(<<S("new"), S("SubOwn")>>)>>)

\* (var (o Other) (new Base 1))
VarOtherFromBase ==
  L(<<S("var"), L(<<S("o"), S("Other")>>), L(<<S("new"), S("Base"), N>>)>>)

\* (var (s SubOwn) (new Base 1))
VarSubOwnFromBase ==
  L(<<S("var"), L(<<S("s"), S("SubOwn")>>), L(<<S("new"), S("Base"), N>>)>>)

\* (begin (def takesBase ((b Base)) -> number 1) (takesBase (new SubOwn)))
CallBaseWithSubOwn ==
  L(<<S("begin"), L(<<S("def"), S("takesBase"), L(<<L(<<S("b"), S("Base")>>)>>), S("->"), S("number"), N>>), L(<<S("takesBase"), L(<<S("new"), S("SubOwn")>>)>>)>>)

\* (begin (def takesOther ((o Other)) -> number 1) (takesOther (new Base 1)))
CallOtherWithBase ==
  L(<<S("begin"), L(<<S("def"), S("takesOther"), L(<<L(<<S("o"), S("Other")>>)>>), S("->"), S("number"), N>>), L(<<S("takesOther"), L(<<S("new"), S("Base"), N>>)>>)>>)

ClassPrograms ==
  {ClassBase, ClassSub, ClassSubOwn, ClassLeaf, ClassOdd,
   ClassOther, NewBase, NewSub, PropOwn,
   PropInherited, VarBaseFromSubOwn, VarOtherFromBase, VarSubOwnFromBase,
   CallBaseWithSubOwn, CallOtherWithBase}

NextClasses ==
  \/ NewEvaTC
  \/ \E exp \in ClassPrograms : TcGlobal(exp)
  \/ \E exp \in {NewBase, PropOwn} : TcDefault(exp)

SpecClasses == Init /\ [][NextClasses]_vars

-----------------------------------------------------------------------------
(* Classes: what the specification says of them.                           *)

\* The Class types of the heap.
Classes == {c \in 1..Len(types) : types[c].kind = "class"}

\* b is a proper ancestor of the class a: it lies on a's superclass chain.
RECURSIVE OnSuperChain(_, _)
OnSuperChain(a, b) ==
  /\ KindOf(types, types[a].superClass) = "class"
  /\ \/ types[a].superClass = b
     \/ OnSuperChain(types[a].superClass, b)

\* The class registered under name declares, in its own environment, a
\* constructor that takes an instance and arguments of the types args and
\* returns the class.
Constructs(name, args) ==
  /\ RegGet(reg, name) \in Classes
  /\ "constructor" \in DOMAIN envs[types[RegGet(reg, name)].env].record
  /\ LET c == envs[types[RegGet(reg, name)].env].record["constructor"]
     IN  /\ KindOf(types, c) = "fn"
         /\ types[c].paramTypes = <<RegGet(reg, name)>> \o args
         /\ types[c].returnType = RegGet(reg, name)

\* The class registered under name has a field of this type in the
\* environment of one of its proper ancestors and none of its own.
InheritsField(name, field, type) ==
  /\ RegGet(reg, name) \in Classes
  /\ field \notin DOMAIN envs[types[RegGet(reg, name)].env].record
  /\ NearestFrame(envs, types[RegGet(reg, name)].env, field) # 0
  /\ envs[NearestFrame(envs, types[RegGet(reg, name)].env, field)].record[field] = type

\* C3: for Sub declared with superclass Base, (prop instance field) on an
\* instance of Sub returns the type of a field defined only on Base, and
\* (new Sub args...) is validated against Base's constructor when Sub
\* declares none.
C3_InheritedFieldAndConstructor ==
  /\ ( /\ last.exp = PropInherited
       /\ Constructs("SubOwn", <<>>)
       /\ InheritsField("SubOwn", "x", RegGet(reg, "number")) )
     => (last.err = "" /\ last.ty = RegGet(reg, "number"))
  /\ ( /\ last.exp = NewSub
       /\ InheritsField("Sub", "constructor",
                        envs[types[RegGet(reg, "Base")].env].record["constructor"])
       /\ Constructs("Base", <<RegGet(reg, "number")>>) )
     => last.err = ""

\* C4: for Class types a and b, a.equals(b) is true exactly when a is b or
\* b lies on a's superclass chain, and false otherwise; so a value of a
\* subclass is accepted where an ancestor is expected, and a value of a class
\* is rejected where a class that is neither it nor one of its ancestors is
\* expected, for a variable and for a parameter alike.
C4_ClassEqualsAlongSuperChain ==
  /\ \A a \in Classes : \A b \in Classes :
       Equals(types, reg, a, b) =
         (IF a = b \/ OnSuperChain(a, b) THEN "true" ELSE "false")
  /\ ( /\ last.exp \in {VarBaseFromSubOwn, CallBaseWithSubOwn}
       /\ Constructs("SubOwn", <<>>)
       /\ RegGet(reg, "Base") \in Classes
       /\ OnSuperChain(RegGet(reg, "SubOwn"), RegGet(reg, "Base")) )
     => last.err = ""
  /\ ( /\ last.exp \in {VarOtherFromBase, CallOtherWithBase}
       /\ Constructs("Base", <<RegGet(reg, "number")>>)
       /\ RegGet(reg, "Other") \in Classes
       /\ RegGet(reg, "Other") # RegGet(reg, "Base")
       /\ ~OnSuperChain(RegGet(reg, "Base"), RegGet(reg, "Other")) )
     => last.err = "TypeMismatch"
  /\ ( /\ last.exp = VarSubOwnFromBase
       /\ Constructs("Base", <<RegGet(reg, "number")>>)
       /\ RegGet(reg, "SubOwn") \in Classes
       /\ OnSuperChain(RegGet(reg, "SubOwn"), RegGet(reg, "Base")) )
     => last.err = "TypeMismatch"

\* A value of the subclass SubOwn was accepted for a variable declared Base,
\* with two classes in the heap that are equal in one direction only.
C4_SubclassAccepted ==
  /\ last.exp = VarBaseFromSubOwn
  /\ last.err = ""
  /\ last.ty = RegGet(reg, "Base")
  /\ OnSuperChain(RegGet(reg, "SubOwn"), RegGet(reg, "Base"))
  /\ Equals(types, reg, RegGet(reg, "SubOwn"), RegGet(reg, "Base")) = "true"
  /\ Equals(types, reg, RegGet(reg, "Base"), RegGet(reg, "SubOwn")) = "false"

-----------------------------------------------------------------------------
(* Programs: aliases and unions.                                           *)

\* (type int number)
AliasInt ==
  L(<<S("type"), S("int"), S("number")>>)

\* (type int2 int)
AliasInt2 ==
  L(<<S("type"), S("int2"), S("int")>>)

\* (type F Fn<number<number>>)
AliasFn ==
  L(<<S("type"), S("F"), S("Fn<number<number>>")>>)

\* (type OtherAlias Other)
AliasOther ==
  L(<<S("type"), S("OtherAlias"), S("Other")>>)

\* (type NS NumOrStr)
AliasNumOrStr ==
  L(<<S("type"), S("NS"), S("NumOrStr")>>)

\* (type NumOrStr (or number string))
UnionNumOrStr ==
  L(<<S("type"), S("NumOrStr"), L(<<S("or"), S("number"), S("string")>>)>>)

\* (type FnOrNum (or Fn<number<number>> number))
UnionFnOrNum ==
  L(<<S("type"), S("FnOrNum"), L(<<S("or"), S("Fn<number<number>>"), S("number")>>)>>)

\* (type NumNum (or number number))
UnionNumNum ==
  L(<<S("type"), S("NumNum"), L(<<S("or"), S("number"), S("number")>>)>>)

\* (type OtherOnly (or Other))
UnionOther ==
  L(<<S("type"), S("OtherOnly"), L(<<S("or"), S("Other")>>)>>)

\* (var (i int) 5)
VarIntFromNumber ==
  L(<<S("var"), L(<<S("i"), S("int")>>), N>>)

\* (begin (var (i int) 5) (var (n number) i))
VarNumberFromInt ==
  L(<<S("begin"), L(<<S("var"), L(<<S("i"), S("int")>>), N>>), L(<<S("var"), L(<<S("n"), S("number")>>), S("i")>>)>>)

\* (var (f F) square)
VarFFromSquare ==
  L(<<S("var"), L(<<S("f"), S("F")>>), S("square")>>)

\* (var (n NumOrStr) 5)
VarNumOrStrFromNumber ==
  L(<<S("var"), L(<<S("n"), S("NumOrStr")>>), N>>)

\* (var (b NumOrStr) true)
VarNumOrStrFromBoolean ==
  L(<<S("var"), L(<<S("b"), S("NumOrStr")>>), S("true")>>)

\* (var (x FnOrNum) 5)
VarFnOrNumFromNumber ==
  L(<<S("var"), L(<<S("x"), S("FnOrNum")>>), N>>)

\* (begin (var (v NumOrStr) "a") (var (u NumNum) v))
VarNumNumFromNumOrStr ==
  L(<<S("begin"), L(<<S("var"), L(<<S("v"), S("NumOrStr")>>), S("\"a\"")>>), L(<<S("var"), L(<<S("u"), S("NumNum")>>), S("v")>>)>>)

TypePrograms ==
  {AliasInt, AliasInt2, AliasFn, AliasOther, AliasNumOrStr, UnionNumOrStr,
   UnionFnOrNum, UnionNumNum, UnionOther, ClassOther, VarIntFromNumber,
   VarNumberFromInt, VarFFromSquare, VarNumOrStrFromNumber,
   VarNumOrStrFromBoolean, VarFnOrNumFromNumber, VarNumNumFromNumOrStr}

NextTypes ==
  \/ NewEvaTC
  \/ \E exp \in TypePrograms : TcGlobal(exp)
  \/ \E exp \in {AliasInt, VarIntFromNumber} : TcDefault(exp)

SpecTypes == Init /\ [][NextTypes]_vars

-----------------------------------------------------------------------------
(* Aliases and unions: what the specification says of them.                *)

\* The types of the heap by kind.
Aliases == {a \in 1..Len(types) : types[a].kind = "alias"}

Unions == {u \in 1..Len(types) : types[u].kind = "union"}

NamedKinds ==
  {t \in 1..Len(types) : types[t].kind \in {"prim", "fn", "alias", "union", "class"}}

\* The base at the end of the alias chain of a type.
RECURSIVE AliasBase(_)
AliasBase(a) ==
  IF KindOf(types, a) = "alias" THEN AliasBase(types[a].parent) ELSE a

\* C7: an alias A declared by (type A B) and B are equal in both
\* directions, A is equal in both directions with the base at the end of its
\* alias chain, and a value of type B is accepted where A is expected (as a
\* value of type A is where B is).
C7_AliasMutuallyEqual ==
  /\ \A a \in Aliases :
       /\ Equals(types, reg, a, types[a].parent) = "true"
       /\ Equals(types, reg, types[a].parent, a) = "true"
       /\ Equals(types, reg, a, AliasBase(a)) = "true"
       /\ Equals(types, reg, AliasBase(a), a) = "true"
  /\ ( /\ last.exp = VarFFromSquare
       /\ RegGet(reg, "F") \in Aliases
       /\ types[RegGet(reg, "F")].parent = envs[last.env].record["square"] )
     => last.err = ""
  /\ ( /\ last.exp \in {VarIntFromNumber, VarNumberFromInt}
       /\ RegGet(reg, "int") \in Aliases
       /\ types[RegGet(reg, "int")].parent = RegGet(reg, "number") )
     => last.err = ""

\* The option types of a union, as a set.
Options(u) == {types[u].optionTypes[i] : i \in 1..Len(types[u].optionTypes)}

\* C8: for a union U and a type T that is neither an Alias nor a Union,
\* U.equals(T) is true if and only if some option of U equals T; number and
\* string each equal the union NumOrStr of number and string, boolean does
\* not.
C8_UnionEqualsItsMembers ==
  /\ \A u \in Unions : \A t \in NamedKinds \ (Aliases \cup Unions) :
       (Equals(types, reg, u, t) = "true")
         <=> (\E o \in Options(u) : Equals(types, reg, o, t) = "true")
  /\ ( /\ RegGet(reg, "NumOrStr") \in Unions
       /\ types[RegGet(reg, "NumOrStr")].optionTypes =
            <<RegGet(reg, "number"), RegGet(reg, "string")>> )
     => /\ Equals(types, reg, RegGet(reg, "number"), RegGet(reg, "NumOrStr")) = "true"
        /\ Equals(types, reg, RegGet(reg, "string"), RegGet(reg, "NumOrStr")) = "true"
        /\ Equals(types, reg, RegGet(reg, "boolean"), RegGet(reg, "NumOrStr")) = "false"

\* C9: for two distinct unions U and V, U.equals(V) is true only if U and V
\* have the same set of options, and U.equals(V) and V.equals(U) agree.
C9_UnionEqualsUnion ==
  \A u \in Unions : \A v \in Unions \ {u} :
    /\ (Equals(types, reg, u, v) = "true") => (Options(u) = Options(v))
    /\ Equals(types, reg, u, v) = Equals(types, reg, v, u)

\* C10: for two types of which at least one is an Alias or a Union,
\* a.equals(b) and b.equals(a) both return, and return the same boolean.
C10_CompoundEqualsSymmetric ==
  \A a \in NamedKinds : \A b \in Aliases \cup Unions :
    /\ Equals(types, reg, a, b) \in {"true", "false"}
    /\ Equals(types, reg, b, a) \in {"true", "false"}
    /\ Equals(types, reg, a, b) = Equals(types, reg, b, a)


-----------------------------------------------------------------------------
(* Function types and their names.                                         *)

\* The Function types of the heap that were built without a given name:
\* those Type.Function.fromString did not build and cache under their name.
UnnamedFunctions ==
  {f \in 1..Len(types) : types[f].kind = "fn" /\ RegGet(reg, types[f].name) # f}

\* C11: every Function type built without a given name has the canonical
\* name Fn<R<P1,...,Pn>> made of its return type name and its parameter type
\* names in order (Fn<R> without parameters), and getName returns that name.
C11_FunctionCanonicalName ==
  \A f \in UnnamedFunctions :
    /\ types[f].name = BuiltName(types, types[f].paramTypes, types[f].returnType)
    /\ FunctionGetName(types, types[f].name, types[f].paramTypes,
                       types[f].returnType)
         = BuiltName(types, types[f].paramTypes, types[f].returnType)


-----------------------------------------------------------------------------
(* Programs: arithmetic, calls of the global functions, narrowing and      *)
(* blocks.                                                                 *)

\* (+ 1 2)
Add12 ==
  L(<<S("+"), N, N>>)

\* (+ "a" "b")
AddStr ==
  L(<<S("+"), S("\"a\""), S("\"b\"")>>)

\* (+ 1 "a")
AddMixed ==
  L(<<S("+"), N, S("\"a\"")>>)

\* (- "a" "b")
SubStr ==
  L(<<S("-"), S("\"a\""), S("\"b\"")>>)

\* (- 2 1)
Sub21 ==
  L(<<S("-"), N, N>>)

\* (* true false)
MulBool ==
  L(<<S("*"), S("true"), S("false")>>)

\* (+ 1)
AddOne ==
  L(<<S("+"), N>>)

\* (/ 1 2 3)
DivThree ==
  L(<<S("/"), N, N, N>>)

\* (sum 1 2)
SumCall ==
  L(<<S("sum"), N, N>>)

\* (sum 1)
SumOne ==
  L(<<S("sum"), N>>)

\* (sum 1 "a")
SumMixed ==
  L(<<S("sum"), N, S("\"a\"")>>)

\* (sum "a")
SumOneStr ==
  L(<<S("sum"), S("\"a\"")>>)

\* (typeof 1)
TypeofNumber ==
  L(<<S("typeof"), N>>)

\* (typeof "a")
TypeofString ==
  L(<<S("typeof"), S("\"a\"")>>)

\* (square "a")
SquareStr ==
  L(<<S("square"), S("\"a\"")>>)

\* (square square)
SquareSquare ==
  L(<<S("square"), S("square")>>)

\* (square 2)
SquareCall ==
  L(<<S("square"), N>>)

\* (var x 1)
VarXNumber ==
  L(<<S("var"), S("x"), N>>)

\* (begin (type NumOrStr (or number string)) (var (x NumOrStr) "a"))
VarXUnion ==
  L(<<S("begin"), L(<<S("type"), S("NumOrStr"), L(<<S("or"), S("number"), S("string")>>)>>), L(<<S("var"), L(<<S("x"), S("NumOrStr")>>), S("\"a\"")>>)>>)

\* (if (== (typeof x) "string") (- x "a") (typeof (- x 1)))
IfNarrowThen ==
  L(<<S("if"), L(<<S("=="), L(<<S("typeof"), S("x")>>), S("\"string\"")>>), L(<<S("-"), S("x"), S("\"a\"")>>), L(<<S("typeof"), L(<<S("-"), S("x"), N>>)>>)>>)

\* (if (== (typeof x) "string") "c" (- x "a"))
IfNarrowElse ==
  L(<<S("if"), L(<<S("=="), L(<<S("typeof"), S("x")>>), S("\"string\"")>>), S("\"c\""), L(<<S("-"), S("x"), S("\"a\"")>>)>>)

\* (if (== (typeof x) "string") (+ x "b") "c")
IfNarrowUnion ==
  L(<<S("if"), L(<<S("=="), L(<<S("typeof"), S("x")>>), S("\"string\"")>>), L(<<S("+"), S("x"), S("\"b\"")>>), S("\"c\"")>>)

\* (- x 1)
UseXAfter ==
  L(<<S("-"), S("x"), N>>)

\* (begin (var a 1) (+ 1 "a") (var b 2) (type Late number))
BlockFailMiddle ==
  L(<<S("begin"), L(<<S("var"), S("a"), N>>), L(<<S("+"), N, S("\"a\"")>>), L(<<S("var"), S("b"), N>>), L(<<S("type"), S("Late"), S("number")>>)>>)

\* (begin (nowhere) (var c 2))
BlockFailFirst ==
  L(<<S("begin"), L(<<S("nowhere")>>), L(<<S("var"), S("c"), N>>)>>)

\* (begin (var y 1) (var s "a") s)
BlockScoped ==
  L(<<S("begin"), L(<<S("var"), S("y"), N>>), L(<<S("var"), S("s"), S("\"a\"")>>), S("s")>>)

\* (begin (def g ((n number)) -> number n) (g 1))
BlockWithDef ==
  L(<<S("begin"), L(<<S("def"), S("g"), L(<<L(<<S("n"), S("number")>>)>>), S("->"), S("number"), S("n")>>), L(<<S("g"), N>>)>>)

\* (begin (var x "s") x)
BlockShadow ==
  L(<<S("begin"), L(<<S("var"), S("x"), S("\"s\"")>>), S("x")>>)

ArithmeticPrograms ==
  {Add12, AddStr, AddMixed, SubStr, Sub21, MulBool, AddOne, DivThree}

CallPrograms ==
  {SumCall, SumOne, SumMixed, SumOneStr, TypeofNumber, TypeofString,
   SquareStr, SquareSquare, SquareCall}

NarrowingPrograms ==
  {VarXNumber, VarXUnion, IfNarrowThen, IfNarrowElse, IfNarrowUnion, UseXAfter}

ScopedPrograms ==
  {BlockFailMiddle, BlockFailFirst, BlockScoped, BlockWithDef, BlockShadow}

NextExprs ==
  \/ NewEvaTC
  \/ \E exp \in ArithmeticPrograms \cup CallPrograms \cup NarrowingPrograms
               \cup ScopedPrograms : TcGlobal(exp)
  \/ \E exp \in ScopedPrograms \cup NarrowingPrograms : TcDefault(exp)

SpecExprs == Init /\ [][NextExprs]_vars

-----------------------------------------------------------------------------
(* Arithmetic and calls.                                                   *)

\* The name of the type of a literal; "" for anything else.
LiteralType(exp) ==
  IF IsNumber(exp) THEN "number"
  ELSE IF IsString(exp) THEN "string"
  ELSE IF IsBoolean(exp) THEN "boolean"
  ELSE ""

\* _getOperandTypesForOperator(operator): the names of the allowed types
GetOperandTypesForOperator(operator) ==
  IF operator = "+" THEN {"string", "number"} ELSE {"number"}

\* An arithmetic form whose operands are all literals.
ArithmeticOfLiterals(exp) ==
  /\ IsArray(exp)
  /\ IsBinary(exp)
  /\ \A i \in 2..Len(exp.v) : LiteralType(exp.v[i]) # ""

\* The form has two operands of one type, which its operator allows.
WellTypedArithmetic(exp) ==
  /\ Length(exp) = 3
  /\ LiteralType(At(exp, 1)) = LiteralType(At(exp, 2))
  /\ LiteralType(At(exp, 1)) \in GetOperandTypesForOperator(Head0(exp))

\* C12: an arithmetic form (op a b) checks exactly when it has two operands
\* of equal types and that type is allowed for op (number or string for +,
\* number for - * /); it then returns that type, and fails otherwise.
C12_ArithmeticOperandTypes ==
  (last.op # "new" /\ ArithmeticOfLiterals(last.exp)) =>
    /\ last.err = "" <=> WellTypedArithmetic(last.exp)
    /\ WellTypedArithmetic(last.exp) =>
         last.ty = RegGet(reg, LiteralType(At(last.exp, 1)))

\* A call of one of the global functions whose arguments are literals or
\* names bound in the global environment.
CallOfGlobal(exp) ==
  /\ IsArray(exp)
  /\ Head0(exp) \in {"sum", "square", "typeof"}
  /\ \A i \in 2..Len(exp.v) :
       \/ LiteralType(exp.v[i]) # ""
       \/ exp.v[i].t = "s" /\ exp.v[i].v \in DOMAIN envs[last.env].record

\* The type of such an argument.
ArgumentType(arg) ==
  IF LiteralType(arg) # "" THEN RegGet(reg, LiteralType(arg))
  ELSE envs[last.env].record[arg.v]

\* The arguments fit the parameters: as many, and each of the parameter's
\* type unless the parameter is any.
ArgumentsFit(fn, exp) ==
  /\ Length(exp) - 1 = Len(types[fn].paramTypes)
  /\ \A i \in 1..Len(types[fn].paramTypes) :
       \/ types[fn].paramTypes[i] = RegGet(reg, "any")
       \/ types[fn].paramTypes[i] = ArgumentType(At(exp, i))

\* C13: a call of a Function succeeds exactly when the arguments are as many
\* as the parameters and each has its parameter's type (any accepts every
\* type); it then returns the return type; a wrong count is an arity error,
\* also when types disagree, and a wrong type is a type mismatch.
C13_CallArityAndTypes ==
  (last.op # "new" /\ CallOfGlobal(last.exp)) =>
    LET fn == envs[last.env].record[Head0(last.exp)]
    IN  /\ last.err = "" <=> ArgumentsFit(fn, last.exp)
        /\ ArgumentsFit(fn, last.exp) => last.ty = types[fn].returnType
        /\ Length(last.exp) - 1 # Len(types[fn].paramTypes)
             => last.err = "ArityMismatch"
        /\ (/\ Length(last.exp) - 1 = Len(types[fn].paramTypes)
            /\ ~ArgumentsFit(fn, last.exp)) => last.err = "TypeMismatch"


-----------------------------------------------------------------------------
(* Narrowing, fail-fast blocks and block scopes.                           *)

\* An if whose condition is a type cast, (if (== (typeof name) "T") ...).
NarrowingIf(exp) ==
  /\ IsArray(exp)
  /\ Head0(exp) = "if"
  /\ IsTypeCastCondition(At(exp, 1))

\* name is bound to the registered type typeName in environment env.
BoundTo(es, rg, env, name, typeName) ==
  /\ name \in DOMAIN es[env].record
  /\ es[env].record[name] = RegGet(rg, typeName)

\* The step checks the narrowing if, with x bound to number.
NarrowingStep ==
  /\ last'.op # "new"
  /\ NarrowingIf(last'.exp)
  /\ BoundTo(envs, reg, last'.env, "x", "number")

\* C16: in (if (== (typeof x) "string") then else) the then-branch sees x as
\* string, the else-branch sees x with its original type, and the
\* environment the if was checked in is left as it was: the narrowed binding
\* lives in a child scope of it.
C16_NarrowingStaysInBranch ==
  [][NarrowingStep =>
       /\ \A e \in 1..Len(envs) : envs'[e] = envs[e]
       /\ Len(envs') = Len(envs) + 1
       /\ envs'[Len(envs) + 1].parent = last'.env
       /\ BoundTo(envs', reg', Len(envs) + 1, "x", "string")
       /\ last'.exp = IfNarrowThen =>
            (last'.err = "" /\ last'.ty = RegGet(reg', "string"))
       /\ last'.exp = IfNarrowElse => last'.err = "TypeMismatch"]_vars

\* The narrowing if was checked with x a number: it succeeded, a child scope
\* binds x to string, and x is a number still where the if was checked.
C16_NarrowedInChildScope ==
  /\ last.exp = IfNarrowThen
  /\ last.err = ""
  /\ BoundTo(envs, reg, last.env, "x", "number")
  /\ \E e \in 1..Len(envs) :
       envs[e].parent = last.env /\ BoundTo(envs, reg, e, "x", "string")

\* C17: when an expression of (begin e1 ... en) throws, the check ends with
\* that error and no later expression is checked: the bindings and the
\* registry entry the later expressions would make never appear.
C17_BlockFailFast ==
  /\ (last.op # "new" /\ last.exp = BlockFailMiddle) => last.err = "TypeMismatch"
  /\ (last.op # "new" /\ last.exp = BlockFailFirst) => last.err = "ReferenceError"
  /\ \A e \in 1..Len(envs) : DOMAIN envs[e].record \cap {"b", "c"} = {}
  /\ ~RegHas(reg, "Late")

\* The block failed at its second expression, after the first bound a.
C17_FailedAfterFirst ==
  /\ last.exp = BlockFailMiddle
  /\ last.err = "TypeMismatch"
  /\ \E e \in 1..Len(envs) : BoundTo(envs, reg, e, "a", "number")

\* The step checks a block with tc.
BlockStep ==
  /\ last'.op = "tc"
  /\ IsArray(last'.exp)
  /\ Head0(last'.exp) = "begin"

\* C18: checking (begin e1 ... en) with tc leaves every binding of the
\* environment it was checked in as it was; the names the block defines are
\* bound in its fresh child scope, and the result is the type of en.
C18_BlockScopeIsLocal ==
  [][BlockStep =>
       /\ \A e \in 1..Len(envs) : envs'[e] = envs[e]
       /\ Len(envs') > Len(envs)
       /\ envs'[Len(envs) + 1].parent = last'.env
       /\ last'.err = "" =>
            /\ last'.exp = BlockScoped =>
                 {"y", "s"} \subseteq DOMAIN envs'[Len(envs) + 1].record
            /\ last'.exp = BlockWithDef =>
                 "g" \in DOMAIN envs'[Len(envs) + 1].record
            /\ last'.ty =
                 Tc(MkState(types', envs', reg'),
                    last'.exp.v[Len(last'.exp.v)], Len(envs) + 1).ty]_vars

\* A block checked with tc bound x to string in its own scope, where the
\* enclosing environment binds x to number, and returned string.
C18_ShadowedInBlock ==
  /\ last.op = "tc"
  /\ last.exp = BlockShadow
  /\ last.err = ""
  /\ last.ty = RegGet(reg, "string")
  /\ BoundTo(envs, reg, last.env, "x", "number")
  /\ \E e \in 1..Len(envs) :
       envs[e].parent = last.env /\ BoundTo(envs, reg, e, "x", "string")


-----------------------------------------------------------------------------
(* Programs: declarations of types, classes and generic functions, and     *)
(* instantiation.                                                          *)

\* (class P null (begin (def constructor ((self P) (v number)) -> number v)))
ClassP ==
  L(<<S("class"), S("P"), S("null"), L(<<S("begin"), L(<<S("def"), S("constructor"), L(<<L(<<S("self"), S("P")>>), L(<<S("v"), S("number")>>)>>), S("->"), S("number"), S("v")>>)>>)>>)

\* (new P 1)
NewP ==
  L(<<S("new"), S("P"), N>>)

\* (type number (or string string))
UnionOverNumber ==
  L(<<S("type"), S("number"), L(<<S("or"), S("string"), S("string")>>)>>)

\* (def bad <T> ((x T)) -> T (+ nowhere 1))
BadGenericDef ==
  L(<<S("def"), S("bad"), S("<T>"), L(<<L(<<S("x"), S("T")>>)>>), S("->"), S("T"), L(<<S("+"), S("nowhere"), N>>)>>)

\* (lambda <K> ((x K)) -> K (missing x))
GenericLambda ==
  L(<<S("lambda"), S("<K>"), L(<<L(<<S("x"), S("K")>>)>>), S("->"), S("K"), L(<<S("missing"), S("x")>>)>>)

\* (def worse ((x number)) -> number (+ nowhere 1))
BadDef ==
  L(<<S("def"), S("worse"), L(<<L(<<S("x"), S("number")>>)>>), S("->"), S("number"), L(<<S("+"), S("nowhere"), N>>)>>)

\* (lambda ((f Fn<string<number>>)) -> number 1)
LambdaFnParam ==
  L(<<S("lambda"), L(<<L(<<S("f"), S("Fn<string<number>>")>>)>>), S("->"), S("number"), N>>)

GenericDeclarations == {IdDef, BadGenericDef, GenericLambda}

DeclarationPrograms ==
  {AliasInt, UnionNumOrStr, UnionOverNumber, ClassOther, ClassP, NewP,
   BadDef, LambdaFnParam} \cup GenericDeclarations

\* The programs that are checked on two instances in a row.
RepeatedPrograms ==
  {AliasInt, UnionNumOrStr, ClassOther, NewP, BadDef, LambdaFnParam, IdDef}

NextDecls ==
  \/ NewEvaTC
  \/ \E exp \in DeclarationPrograms : TcGlobal(exp)
  \/ \E exp \in {AliasInt, NewP} \cup GenericDeclarations : TcDefault(exp)

SpecDecls == Init /\ [][NextDecls]_vars

-----------------------------------------------------------------------------
(* Declarations.                                                           *)

\* C14: the registry of types is append-only: a name once registered keeps
\* the same Type value over every declaration, a declaration that reuses a
\* registered name failing with the registry unchanged.
C14_RegistryAppendOnly ==
  [][/\ \A name \in DOMAIN reg : RegGet(reg', name) = reg[name]
     /\ (/\ last'.op # "new"
         /\ Head0(last'.exp) \in {"type", "class"}
         /\ RegHas(reg, ToText(At(last'.exp, 1))))
          => (last'.err # "" /\ reg' = reg)]_vars

\* C15: whenever (new ClassName args...) type-checks, its result is the
\* Class type registered under ClassName.
C15_NewReturnsClassType ==
  (/\ last.op # "new"
   /\ IsArray(last.exp)
   /\ Head0(last.exp) = "new"
   /\ last.err = "")
    => /\ KindOf(types, last.ty) = "class"
       /\ last.ty = RegGet(reg, ToText(At(last.exp, 1)))

\* The step checks the declaration of a generic function.
GenericDeclarationStep ==
  /\ last'.op # "new"
  /\ last'.exp \in GenericDeclarations

\* The name a declaration binds: that of a def, none ("") for a lambda.
DeclaredName(exp) ==
  IF Head0(exp) = "def" THEN ToText(At(exp, 1)) ELSE ""

\* C19: the declaration of a generic function, by lambda or by def, checks
\* no body and pre-registers no Function signature: it succeeds, ill-typed
\* body or not, makes one GenericFunction and nothing else, and a def binds
\* its name to it.
C19_GenericDeclarationChecksNoBody ==
  [][GenericDeclarationStep =>
       /\ last'.err = ""
       /\ types' = Append(types, NewGenericFunction)
       /\ last'.ty = Len(types) + 1
       /\ reg' = reg
       /\ envs' = IF DeclaredName(last'.exp) = "" THEN envs
                  ELSE Define(envs, last'.env, DeclaredName(last'.exp),
                              Len(types) + 1)]_vars

\* A generic def whose body refers to an undefined name was accepted and its
\* name is bound to a GenericFunction.
C19_IllTypedGenericAccepted ==
  /\ last.exp = BadGenericDef
  /\ last.err = ""
  /\ BoundToGeneric("bad")

\* new EvaTC() in the process state st, and tcGlobal(exp) on that instance.
FreshRun(st, exp) ==
  TcGlobalBody(CreateGlobal(st), exp, Len(st.envs) + 1)

\* What a run shows: an error, or the name of the type it returns.
Shown(r) ==
  IF r.err # "" THEN "error"
  ELSE IF r.ty = 0 THEN "undefined"
  ELSE r.st.types[r.ty].name

\* C20: checking the same program on two freshly constructed instances, one
\* after the other in one process, gives the same outcome both times: the
\* same result type name, or an error in both.
C20_RepeatableAcrossInstances ==
  \A exp \in RepeatedPrograms :
    Shown(FreshRun(Current, exp))
      = Shown(FreshRun(FreshRun(Current, exp).st, exp))


\* The program holds a type or a class declaration, at any depth.
RECURSIVE Declares(_)
Declares(exp) ==
  /\ IsArray(exp)
  /\ \/ Head0(exp) \in {"type", "class"}
     \/ \E i \in 1..Len(exp.v) : Declares(exp.v[i])

\* The program is the declaration of an alias.
DeclaresAlias(exp) ==
  /\ IsArray(exp)
  /\ Head0(exp) = "type"
  /\ ~IsArray(At(exp, 2))

\* C20, amended: a program that holds no type or class declaration has the
\* same outcome on two freshly constructed instances, one after the other in
\* one process; the declaration of an alias that succeeds on the first
\* instance fails on the second, its name being registered in the process.
C20_RepeatableWithoutDeclarations ==
  \A exp \in RepeatedPrograms :
    /\ ~Declares(exp) =>
         Shown(FreshRun(Current, exp))
           = Shown(FreshRun(FreshRun(Current, exp).st, exp))
    /\ (DeclaresAlias(exp) /\ FreshRun(Current, exp).err = "") =>
         FreshRun(FreshRun(Current, exp).st, exp).err = "AlreadyDefined"

\* A second instance was made after the first declared the alias int, and
\* the same declaration failed on it.
C20_AliasFailsOnSecondInstance ==
  /\ last.op = "tcGlobal"
  /\ last.exp = AliasInt
  /\ last.err = "AlreadyDefined"
  /\ last.env = global
  /\ global # 1
  /\ KindOf(types, RegGet(reg, "int")) = "alias"

-----------------------------------------------------------------------------
(* Programs: narrowing to a type that is, and that is not, the type of the *)
(* name.                                                                   *)

\* (if (== (typeof nobody) "string") 1 2)
IfNarrowUnbound ==
  L(<<S("if"), L(<<S("=="), L(<<S("typeof"), S("nobody")>>), S("\"string\"")>>), N, N>>)

\* (if (== (typeof x) "Nothing") 1 2)
IfNarrowUnknown ==
  L(<<S("if"), L(<<S("=="), L(<<S("typeof"), S("x")>>), S("\"Nothing\"")>>), N, N>>)

\* (if (== (typeof x) "boolean") 1 2)
IfNarrowBoolean ==
  L(<<S("if"), L(<<S("=="), L(<<S("typeof"), S("x")>>), S("\"boolean\"")>>), N, N>>)

TypeCastPrograms ==
  {VarXNumber, VarXUnion, IfNarrowThen, IfNarrowElse, IfNarrowUnion,
   IfNarrowUnbound, IfNarrowUnknown, IfNarrowBoolean, UseXAfter}

NextNarrow ==
  \/ NewEvaTC
  \/ \E exp \in TypeCastPrograms : TcGlobal(exp)
  \/ \E exp \in TypeCastPrograms : TcDefault(exp)

SpecNarrow == Init /\ [][NextNarrow]_vars

\* The step checks an if whose condition is a type cast.
TypeCastStep ==
  /\ last'.op # "new"
  /\ NarrowingIf(last'.exp)

\* The name and the type name of the type cast the step checks.
CastName == GetSpecifiedType(At(last'.exp, 1)).name

CastType == ToText(GetSpecifiedType(At(last'.exp, 1)).type)

\* The step made the child scope of the then-branch, which rebinds the name.
Rebound ==
  /\ Len(envs') > Len(envs)
  /\ envs'[Len(envs) + 1].parent = last'.env
  /\ CastName \in DOMAIN envs'[Len(envs) + 1].record

\* The type named typeName is the type cur, or an option of the union cur.
WithinType(ts, rg, typeName, cur) ==
  /\ RegHas(rg, typeName)
  /\ \/ rg[typeName] = cur
     \/ /\ KindOf(ts, cur) = "union"
        /\ \E i \in 1..Len(ts[cur].optionTypes) :
             ts[cur].optionTypes[i] = rg[typeName]

\* The name of the cast is bound where the if is checked, to a type that
\* the type of the cast lies within.
CastWithinDeclared ==
  /\ CastName \in DOMAIN envs[last'.env].record
  /\ WithinType(types, reg, CastType, envs[last'.env].record[CastName])

\* C21: in (if (== (typeof x) "T") then else), x is rebound to T only when
\* x is bound in scope and T is x's current type or, for a union-typed x,
\* one of its options; for any other T the if is rejected.
C21_NarrowingWithinDeclaredType ==
  [][TypeCastStep =>
       /\ Rebound => CastWithinDeclared
       /\ ~CastWithinDeclared => last'.err # ""]_vars

\* C21, amended: x is rebound to T only when x is bound in scope and T
\* names a registered type, whatever the current type of x; the child scope
\* binds x to that type; the if is rejected when x is not bound or T names
\* no type.
C21_NarrowingToAnyRegisteredType ==
  [][TypeCastStep =>
       /\ Rebound =>
            /\ CastName \in DOMAIN envs[last'.env].record
            /\ RegHas(reg', CastType)
            /\ envs'[Len(envs) + 1].record[CastName] = reg'[CastType]
       /\ (\/ CastName \notin DOMAIN envs[last'.env].record
           \/ ~RegHas(reg', CastType))
            => (last'.err # "" /\ ~Rebound)
       /\ (/\ CastName \in DOMAIN envs[last'.env].record
           /\ RegHas(reg, CastType)) => Rebound]_vars

\* x, bound to the union of number and string, was narrowed to boolean in a
\* child scope by an if that was accepted.
C21_NarrowedOutsideUnion ==
  /\ last.exp = IfNarrowBoolean
  /\ last.err = ""
  /\ "x" \in DOMAIN envs[last.env].record
  /\ KindOf(types, envs[last.env].record["x"]) = "union"
  /\ \E e \in 1..Len(envs) :
       envs[e].parent = last.env /\ BoundTo(envs, reg, e, "x", "boolean")

-----------------------------------------------------------------------------
(* Programs: declarations that refer to registered types, their own name   *)
(* included.                                                               *)

\* (type NumOrStr (or NumOrStr number))
UnionOfItself ==
  L(<<S("type"), S("NumOrStr"), L(<<S("or"), S("NumOrStr"), S("number")>>)>>)

\* (class Other Other (begin (var z 1)))
ClassOverItself ==
  L(<<S("class"), S("Other"), S("Other"), L(<<S("begin"), L(<<S("var"), S("z"), N>>)>>)>>)

ReferencePrograms ==
  {AliasInt, AliasInt2, AliasFn, AliasOther, UnionNumOrStr, UnionOfItself,
   UnionFnOrNum, UnionOther, ClassOther, ClassOverItself, VarIntFromNumber,
   VarNumOrStrFromNumber}

NextRefs ==
  \/ NewEvaTC
  \/ \E exp \in ReferencePrograms : TcGlobal(exp)
  \/ \E exp \in {UnionOfItself, ClassOverItself, AliasInt} : TcDefault(exp)

SpecRefs == Init /\ [][NextRefs]_vars

\* The types that equals may go on to from type t: an alias's parent, a
\* union's options, a class's superclass, a function's parameter and return
\* types.
References(ts, t) ==
  ({ts[t].parent, ts[t].superClass, ts[t].returnType}
     \cup {ts[t].optionTypes[i] : i \in 1..Len(ts[t].optionTypes)}
     \cup {ts[t].paramTypes[i] : i \in 1..Len(ts[t].paramTypes)}) \ {0}

\* The types of set and the types they refer to.
WithReferences(ts, set) == set \cup UNION {References(ts, t) : t \in set}

\* Every type that can be reached from the types of set.
RECURSIVE ReachableFrom(_, _)
ReachableFrom(ts, set) ==
  IF WithReferences(ts, set) = set THEN set
  ELSE ReachableFrom(ts, WithReferences(ts, set))

\* C22: after any sequence of type and class declarations, those that reuse
\* a name included, no type reaches itself along the references equals
\* follows, and a.equals(b) comes to an end (a value or a throw) for every
\* pair of types.
C22_EqualsReferencesAcyclic ==
  /\ \A t \in 1..Len(types) : t \notin ReachableFrom(types, References(types, t))
  /\ \A a \in 1..Len(types) : \A b \in 1..Len(types) :
       Equals(types, reg, a, b) \in {"true", "false", "throw"}

\* A class was declared again under its own name and then given an alias:
\* the alias refers to the new class, which refers to the older class of
\* that name, a different object.
C22_RedeclaredOverItself ==
  /\ RegHas(reg, "Other")
  /\ KindOf(types, types[reg["Other"]].superClass) = "class"
  /\ types[types[reg["Other"]].superClass].name = "Other"
  /\ types[reg["Other"]].superClass # reg["Other"]
  /\ \E a \in 1..Len(types) :
       types[a].kind = "alias" /\ types[a].parent = reg["Other"]
=============================================================================
